---- MODULE Spec2Model ----
(***************************************************************************)
(* Line-editing engine of bpython's curses front end (bpython/cli.py).     *)
(*                                                                         *)
(* The edit buffer is the pair (s, cpos) of class Editable: s is the line, *)
(* cpos the cursor offset counted from the END of the line.  Several       *)
(* guards of the editing code read the position of the curses cursor       *)
(* (scr.getyx()) and compare it with the origin (iy, ix) of the input      *)
(* line, so the curses cursor is part of the state.  A line is a sequence  *)
(* of one-character strings.                                               *)
(***************************************************************************)
EXTENDS Integers, Sequences, FiniteSets, TLC

VARIABLES s, cpos, cut_buffer, y, x, err,
          is_space_only_skip_char, tab_length,
          op, arg, key, ret,
          entries, index, saved_line, allow_duplicates, ignore_blank,
          hist_line, hist_ret, yielded,
          hist_file, hist_length, notified, buffer, source,
          meta, raw, previous_key, in_search_mode, do_exit,
          typed, looked_up, handlers, result,
          lookup_context, precise, found,
          matches_iter, mi_calls,
          self_matches, rl_indices, list_win_visible, list_box,
          draw_failed, autocomplete_mode, auto_display_list,
          DO_RESIZE, terminal, environ, hw, main_win, status_win, resize_pc,
          history, run_more, run_pc,
          now, last_key_press, paste_mode, caller, repaints,
          self_yank_index

\* The readline history (class History of bpython/history.py) of the repl.
hist_vars == <<entries, index, saved_line, allow_duplicates, ignore_blank,
               hist_line, hist_ret, yielded>>

\* The state that Repl.push works on besides the history: the history file
\* (whether it exists, and its text), config.hist_length, the calls of
\* interact.notify made by the last push, the buffer of the lines of the
\* statement being entered, and the source handed to interp.runsource.
push_vars == <<hist_file, hist_length, notified, buffer, source>>

\* The key dispatcher of the main editor (class Dispatcher of
\* bpython/key/dispatcher.py, and the fields of its owner that the handlers
\* read): typed is the key passed to run, looked_up the key names that the
\* call looked up in the dispatch table, handlers the handlers it called and
\* result the value it returned ("" for '', "None" for None).
dispatch_vars == <<meta, raw, previous_key, in_search_mode, do_exit,
                   typed, looked_up, handlers, result>>

\* A lookup in the dispatch table: the table of the lookup, what
\* _get_precise_keyname made of the key name typed, and the handler found.
lookup_vars == <<lookup_context, precise, found>>

\* The match cursor of the repl (class MatchesIterator of bpython/repl.py),
\* and the calls made on it since its matches were loaded, each with the
\* value it returned.
matches_vars == <<matches_iter, mi_calls>>

\* Completion in the main editor (class CLIRepl of bpython/cli.py):
\* self_matches is self.matches, the candidates of the last completion or
\* history search, rl_indices the history index of each line found by a
\* search, list_box the popup (class ListBox), and autocomplete_mode and
\* auto_display_list the two settings of the configuration that tab reads.
\* draw_failed tells that curses.error was raised by the draw of the popup
\* during the last handler.
tab_vars == <<self_matches, rl_indices, list_win_visible, list_box,
              draw_failed, autocomplete_mode, auto_display_list>>

\* The resize of the windows (class App of bpython/cli.py): DO_RESIZE is the
\* flag that the handler of SIGWINCH sets, terminal the size of the terminal
\* as the ioctl of App.gethw reports it, environ the LINES and COLUMNS of
\* os.environ, from which curses takes the size of the screen that
\* app.scr.getmaxyx reports, hw the h and w of App.do_resize, main_win the
\* h and w of the main window (CLIRepl.size), status_win the y and w of the
\* status bar (Statusbar.size), and resize_pc the place of the key loop in
\* App.idle and App.do_resize.
resize_vars == <<DO_RESIZE, terminal, environ, hw, main_win, status_win,
                 resize_pc>>

\* The main loop of the repl (CLIRepl.run): history is self.history, the
\* lines submitted, run_more the more of run (the value of the last push),
\* and run_pc the place of the loop: "prompt" before the prompt of a line
\* is shown, "get_line" while get_line waits for a key, "exit" when run
\* has returned.
run_vars == <<history, run_more, run_pc>>

\* Paste mode (class Editable): now is the clock that time.time() reads,
\* last_key_press and paste_mode are the fields of the two editors, the
\* main editor and the status bar, caller is the editor whose key loop is
\* running, and repaints counts the calls of print_line made by
\* Editable.check since the last key.
paste_vars == <<now, last_key_press, paste_mode, caller, repaints>>

\* The key loop and the application around the editor.
\* self_yank_index is the field yank_index of the dispatcher, which M-y
\* counts down.
loop_vars == <<resize_vars, run_vars, paste_vars, self_yank_index>>

vars == <<s, cpos, cut_buffer, y, x, err,
          is_space_only_skip_char, tab_length, op, arg, key, ret, hist_vars,
          push_vars, dispatch_vars, lookup_vars, matches_vars, tab_vars,
          loop_vars>>

(***************************************************************************)
(* Bounds of the model.                                                    *)
(***************************************************************************)
MaxChars == 3
MaxCut == 2
MaxDelta == 2
TermW == 6

(***************************************************************************)
(* The characters typed: a narrow word character, the space, and a wide    *)
(* punctuation character: "," stands for the fullwidth comma U+FF0C, which *)
(* unicodedata.east_asian_width classes as 'F' and which takes two cells.  *)
(* The configured word delimiters are the space and that comma.            *)
(***************************************************************************)
Chars == {"a", " ", ","}
WideChars == {","}
word_delimiter == {" ", ","}
TabLengths == {2}
YankIndices == {-2, -3}

\* Length of the prompt ('>>> ' / '... '), the column where the line starts.
PromptLen == 4
ix == PromptLen
iy == 0

Min(a, b) == IF a < b THEN a ELSE b
Max(a, b) == IF a > b THEN a ELSE b

(***************************************************************************)
(* Python sequence indexing and slicing (negative indices count from the   *)
(* end, slices clamp, an index out of range raises IndexError).            *)
(***************************************************************************)
PyValid(sq, p) == -Len(sq) <= p /\ p < Len(sq)
PyAt(sq, p) == sq[(IF p < 0 THEN Len(sq) + p ELSE p) + 1]
PySliceIdx(n, p) == IF p < 0 THEN Max(n + p, 0) ELSE Min(p, n)
PySlice(sq, a, b) ==
    LET lo == PySliceIdx(Len(sq), a)
        hi == PySliceIdx(Len(sq), b)
    IN  IF lo >= hi THEN <<>> ELSE SubSeq(sq, lo + 1, hi)
PyTo(sq, b) == PySlice(sq, 0, b)
PyFrom(sq, a) == PySlice(sq, a, Len(sq))

RECURSIVE Reverse(_)
Reverse(sq) == IF sq = <<>> THEN <<>> ELSE Append(Reverse(Tail(sq)), Head(sq))

RECURSIVE Lstrip(_)
Lstrip(sq) ==
    IF sq # <<>> /\ Head(sq) = " " THEN Lstrip(Tail(sq)) ELSE sq

(***************************************************************************)
(* Display-width model.                                                    *)
(***************************************************************************)
_get_width(c) == IF c \in WideChars THEN 2 ELSE 1

RECURSIVE SumWidth(_)
SumWidth(sq) ==
    IF sq = <<>> THEN 0 ELSE _get_width(Head(sq)) + SumWidth(Tail(sq))

(***************************************************************************)
(* The editor as a record, so that the methods are operators.              *)
(***************************************************************************)
NoErr == "none"

\* Return values: None, a bool or an int, tagged so that they compare.
None == [t |-> "None", v |-> 0]
True == [t |-> "bool", v |-> 1]
False == [t |-> "bool", v |-> 0]
Int_(n) == [t |-> "int", v |-> n]

Raise(e, exc) == [e EXCEPT !.err = exc]
Return(e, v) == [e EXCEPT !.ret = v]

\* scr.move(y, x): positions outside the window raise curses.error.
ScrMove(e, ny, nx) ==
    IF e.err # NoErr THEN e
    ELSE IF ny < 0 \/ nx < 0 \/ nx >= TermW THEN Raise(e, "curses.error")
    ELSE [e EXCEPT !.y = ny, !.x = nx]

\* scr.addstr of one character: the cursor advances by the cells of the
\* character and wraps at the right margin; a wide character that does not
\* fit in the rest of the row is written at the start of the next row.
ScrAddCh(e, c) ==
    LET wd == _get_width(c)
        fits == e.x + wd <= TermW
        py == IF fits THEN e.y ELSE e.y + 1
        px == IF fits THEN e.x ELSE 0
    IN  IF px + wd >= TermW
        THEN [e EXCEPT !.y = py + 1, !.x = 0]
        ELSE [e EXCEPT !.y = py, !.x = px + wd]

RECURSIVE echo(_, _)
echo(e, str) ==
    IF e.err # NoErr \/ str = <<>> THEN e
    ELSE echo(ScrAddCh(e, Head(str)), Tail(str))

is_beginning_of_the_line(e) == e.cpos = Len(e.s)
is_end_of_the_line(e) == e.cpos = 0
is_empty_line(e) == e.s = <<>>
is_start_of_the_line(e) == Lstrip(e.s) = <<>>

\* addstr that ignores the cursor and always appends.
addstr_appends(e, t) ==
    IF e.err # NoErr THEN e ELSE [e EXCEPT !.s = e.s \o t]

\* Editable.addstr
addstr(e, t) ==
    IF e.err # NoErr THEN e
    ELSE IF e.cpos = 0 THEN [e EXCEPT !.s = e.s \o t]
    ELSE LET l == Len(e.s)
         IN  [e EXCEPT !.s = PyTo(e.s, l - e.cpos) \o t \o PyFrom(e.s, l - e.cpos)]

\* The guards of mvc without the test for the end of the line.
mvc_refuses_no_end_test(e, i) ==
    \/ i = 0
    \/ e.x = ix /\ e.y = iy /\ i >= 1

\* The guards at the head of Editable.mvc: TRUE when the call returns False
\* without moving.
mvc_refuses(e, i) ==
    \/ i = 0
    \/ is_end_of_the_line(e) /\ i < 0
    \/ e.x = ix /\ e.y = iy /\ i >= 1

\* The tail of Editable.mvc, after the width of the move is known; oy, ox
\* are the cursor coordinates read at the head of the call.
mvc_finish(e, i, oy, ox, width) ==
    LET y1 == IF ox - width < 0 THEN oy - 1 ELSE oy
        x1 == IF ox - width < 0 THEN TermW ELSE ox
        y2 == IF x1 - width >= TermW THEN y1 + 1 ELSE y1
        x2 == IF x1 - width >= TermW THEN 0 + i ELSE x1
    IN  Return(ScrMove([e EXCEPT !.cpos = e.cpos + i], y2, x2 - width), True)

RECURSIVE mvc(_, _)
RECURSIVE mvc_times(_, _, _)

\* Editable.mvc
mvc(e, i) ==
    IF e.err # NoErr THEN e
    ELSE IF mvc_refuses(e, i) THEN Return(e, False)
    ELSE IF i = 1 THEN
        IF PyValid(e.s, -e.cpos - 1)
        THEN mvc_finish(e, i, e.y, e.x, _get_width(PyAt(e.s, -e.cpos - 1)))
        ELSE Raise(e, "IndexError")
    ELSE IF i = -1 THEN
        IF PyValid(e.s, -e.cpos)
        THEN mvc_finish(e, i, e.y, e.x, -_get_width(PyAt(e.s, -e.cpos)))
        ELSE Raise(e, "IndexError")
    ELSE LET e1 == mvc_times(e, IF i > 0 THEN 1 ELSE -1, IF i > 0 THEN i ELSE -i)
         IN  IF e1.err # NoErr THEN e1 ELSE mvc_finish(e1, i, e.y, e.x, 0)

\* for _ in xrange(n): self.mvc(i)
mvc_times(e, i, n) ==
    IF n <= 0 \/ e.err # NoErr THEN e
    ELSE mvc_times(mvc(e, i), i, n - 1)

\* Editable.print_line(self.s): repaint the line from the origin and walk
\* the cursor back to cpos.
print_line(e) ==
    IF e.err # NoErr THEN e
    ELSE LET e1 == ScrMove(e, iy, ix)
             e2 == echo(e1, e1.s)
         IN  IF e2.cpos # 0
             THEN mvc_times([e2 EXCEPT !.cpos = 0], 1, e2.cpos)
             ELSE e2

\* Editable.self_insert
self_insert(e, k) == Return(print_line(addstr(e, <<k>>)), None)

\* Editable.backward_character / forward_character
backward_character(e) == Return(mvc(e, 1), None)
forward_character(e) == Return(mvc(e, -1), None)

\* Editable.clear_wrapped_lines: leaves the cursor at the start of the last
\* wrapped row of the line, if the line has wrapped rows.
clear_wrapped_lines(e) ==
    LET max_y == iy + ((ix + Len(e.s)) \div TermW) + 1
    IN  IF e.err # NoErr \/ max_y - 1 < iy + 1 THEN e
        ELSE ScrMove(e, max_y - 1, 0)

\* The loop conditions of the word operations on the character c.
Cond(kind, c) ==
    CASE kind = "space" -> c = " "
      [] kind = "delim" -> c \in word_delimiter
      [] kind = "word" -> c \notin word_delimiter

\* while pos >= 0 and <cond>(self.s[pos]): pos -= 1; backward_character()
\* (once = TRUE for the 'if' form of the same step)
RECURSIVE bw_step(_, _, _, _)
bw_step(e, pos, kind, once) ==
    IF e.err # NoErr \/ pos < 0 THEN [e |-> e, pos |-> pos]
    ELSE IF ~PyValid(e.s, pos) THEN [e |-> Raise(e, "IndexError"), pos |-> pos]
    ELSE IF ~Cond(kind, PyAt(e.s, pos)) THEN [e |-> e, pos |-> pos]
    ELSE IF once THEN [e |-> backward_character(e), pos |-> pos - 1]
    ELSE bw_step(backward_character(e), pos - 1, kind, once)

\* One loop of backward_word, continuing from the result r of the previous one.
bw_next(r, kind, once) == bw_step(r.e, r.pos, kind, once)

\* Editable.backward_word
backward_word(e) ==
    IF e.err # NoErr \/ is_empty_line(e) THEN Return(e, None)
    ELSE LET r0 == [e |-> e, pos |-> Len(e.s) - e.cpos - 1]
             skipped ==
                 IF is_space_only_skip_char
                 THEN bw_next(bw_next(bw_next(r0, "space", FALSE),
                                      "delim", TRUE), "space", FALSE)
                 ELSE bw_next(r0, "delim", FALSE)
         IN  Return(bw_next(skipped, "word", FALSE).e, None)

\* while len_s > pos and <cond>(self.s[pos]): pos += 1; forward_character()
RECURSIVE fw_step(_, _, _, _)
fw_step(e, pos, kind, once) ==
    IF e.err # NoErr \/ ~(Len(e.s) > pos) THEN [e |-> e, pos |-> pos]
    ELSE IF ~PyValid(e.s, pos) THEN [e |-> Raise(e, "IndexError"), pos |-> pos]
    ELSE IF ~Cond(kind, PyAt(e.s, pos)) THEN [e |-> e, pos |-> pos]
    ELSE IF once THEN [e |-> forward_character(e), pos |-> pos + 1]
    ELSE fw_step(forward_character(e), pos + 1, kind, once)

\* One loop of forward_word, continuing from the result r of the previous one.
fw_next(r, kind, once) == fw_step(r.e, r.pos, kind, once)

\* Editable.forward_word
forward_word(e) ==
    IF e.err # NoErr \/ is_empty_line(e) THEN Return(e, None)
    ELSE LET r0 == [e |-> e, pos |-> Len(e.s) - e.cpos - 1]
             skipped ==
                 IF is_space_only_skip_char
                 THEN fw_next(fw_next(fw_next(r0, "space", FALSE),
                                      "delim", TRUE), "space", FALSE)
                 ELSE fw_next(r0, "delim", FALSE)
         IN  Return(fw_next(skipped, "word", FALSE).e, None)

\* A dedent that always removes a full tab_length.
dedent_count_full_tab(e, delete_tabs) ==
    IF is_start_of_the_line(e) /\ delete_tabs THEN tab_length ELSE 1

\* The number of characters a backspace at the end of the line removes.
dedent_count(e, delete_tabs) ==
    IF is_start_of_the_line(e) /\ delete_tabs
    THEN IF Len(e.s) % tab_length = 0 THEN tab_length ELSE Len(e.s) % tab_length
    ELSE 1

\* Editable.backward_delete_character
backward_delete_character(e, delete_tabs) ==
    IF e.err # NoErr THEN e
    ELSE IF is_empty_line(e) \/ is_beginning_of_the_line(e) THEN Return(e, None)
    ELSE IF e.x = ix /\ e.y = iy THEN Return(e, None)
    ELSE LET e1 == clear_wrapped_lines(e)
             n == IF e1.cpos = 0 THEN dedent_count(e1, delete_tabs) ELSE 1
             e2 == IF e1.cpos = 0
                   THEN [e1 EXCEPT !.s = PyTo(e1.s, -n)]
                   ELSE [e1 EXCEPT !.s = PyTo(e1.s, -e1.cpos - 1)
                                         \o PyFrom(e1.s, -e1.cpos)]
         IN  Return(print_line(e2), Int_(n))

\* if self.mvc(-1): self.backward_delete_character(False), e1 being the editor
\* after the call of mvc.
delete_after_mvc(e1, delete_tabs) ==
    IF e1.err = NoErr /\ e1.ret = True
    THEN Return(backward_delete_character(e1, delete_tabs), None)
    ELSE Return(e1, None)

\* delete_character that lets the backspace dedent (delete_tabs left True).
delete_character_dedents(e) ==
    IF e.err # NoErr \/ is_empty_line(e) THEN Return(e, None)
    ELSE delete_after_mvc(mvc(e, -1), TRUE)

\* Editable.delete_character
delete_character(e) ==
    IF e.err # NoErr \/ is_empty_line(e) THEN Return(e, None)
    ELSE delete_after_mvc(mvc(e, -1), FALSE)

\* while self.cpos > 0 and <cond>(self.s[pos]):
\*     deleted.append(self.s[pos]); self.delete_character()
RECURSIVE kw_step(_, _, _, _, _)
kw_step(e, pos, kind, once, deleted) ==
    IF e.err # NoErr \/ ~(e.cpos > 0) THEN [e |-> e, deleted |-> deleted]
    ELSE IF ~PyValid(e.s, pos)
         THEN [e |-> Raise(e, "IndexError"), deleted |-> deleted]
    ELSE IF ~Cond(kind, PyAt(e.s, pos)) THEN [e |-> e, deleted |-> deleted]
    ELSE IF once
         THEN [e |-> delete_character(e), deleted |-> Append(deleted, PyAt(e.s, pos))]
    ELSE kw_step(delete_character(e), pos, kind, once,
                 Append(deleted, PyAt(e.s, pos)))

cut_append(e, text) ==
    IF e.err # NoErr THEN e ELSE [e EXCEPT !.cut = Append(e.cut, text)]

\* One loop of kill_word, continuing from the result r of the previous one.
kw_next(r, pos, kind, once) == kw_step(r.e, pos, kind, once, r.deleted)

\* self.cut_buffer.append(''.join(deleted))
kw_finish(r) == Return(cut_append(r.e, r.deleted), None)

\* Editable.kill_word
kill_word(e) ==
    IF e.err # NoErr \/ is_empty_line(e) THEN Return(e, None)
    ELSE LET pos == Len(e.s) - e.cpos
             r0 == [e |-> e, deleted |-> <<>>]
             skipped ==
                 IF is_space_only_skip_char
                 THEN kw_next(kw_next(kw_next(r0, pos, "space", FALSE),
                                      pos, "delim", TRUE), pos, "space", FALSE)
                 ELSE kw_next(r0, pos, "delim", FALSE)
         IN  kw_finish(kw_next(skipped, pos, "word", FALSE))

\* deleted.append(self.s[pos]); pos -= self.backward_delete_character()
\* where e1 is the editor after the call of backward_delete_character: a
\* return value of None makes the subtraction raise TypeError.
bkw_deleted(e1, e, pos, deleted) ==
    IF e1.err # NoErr THEN [e |-> e1, pos |-> pos, deleted |-> deleted]
    ELSE IF e1.ret = None
    THEN [e |-> Raise(e1, "TypeError"), pos |-> pos,
          deleted |-> Append(deleted, PyAt(e.s, pos))]
    ELSE [e |-> e1, pos |-> pos - e1.ret.v,
          deleted |-> Append(deleted, PyAt(e.s, pos))]

bkw_once(e, pos, deleted) ==
    bkw_deleted(backward_delete_character(e, TRUE), e, pos, deleted)

\* while pos >= 0 and <cond>(self.s[pos]): <bkw_once>
RECURSIVE bkw_step(_, _, _, _, _)
RECURSIVE bkw_next(_, _, _)
bkw_step(e, pos, kind, once, deleted) ==
    IF e.err # NoErr \/ pos < 0 THEN [e |-> e, pos |-> pos, deleted |-> deleted]
    ELSE IF ~PyValid(e.s, pos)
         THEN [e |-> Raise(e, "IndexError"), pos |-> pos, deleted |-> deleted]
    ELSE IF ~Cond(kind, PyAt(e.s, pos))
         THEN [e |-> e, pos |-> pos, deleted |-> deleted]
    ELSE IF once THEN bkw_once(e, pos, deleted)
    ELSE bkw_next(bkw_once(e, pos, deleted), kind, once)

\* One loop of backward_kill_word, continuing from the result r of the
\* previous one.
bkw_next(r, kind, once) == bkw_step(r.e, r.pos, kind, once, r.deleted)

\* self.cut_buffer.append(''.join(reversed(deleted)))
bkw_finish(r) == Return(cut_append(r.e, Reverse(r.deleted)), None)

\* Editable.backward_kill_word
backward_kill_word(e) ==
    IF e.err # NoErr \/ is_empty_line(e) THEN Return(e, None)
    ELSE LET r0 == [e |-> e, pos |-> Len(e.s) - e.cpos - 1, deleted |-> <<>>]
             skipped ==
                 IF is_space_only_skip_char
                 THEN bkw_next(bkw_next(bkw_next(r0, "space", FALSE),
                                        "delim", TRUE), "space", FALSE)
                 ELSE bkw_next(r0, "delim", FALSE)
         IN  bkw_finish(bkw_next(skipped, "word", FALSE))

\* kill_line that puts the text it keeps, not the text it removes, in the
\* cut buffer.
kill_line_cuts_kept(e) ==
    IF e.err # NoErr \/ is_end_of_the_line(e) THEN Return(e, None)
    ELSE Return(print_line([e EXCEPT !.cut = Append(e.cut, PyTo(e.s, -e.cpos)),
                                     !.s = PyTo(e.s, -e.cpos),
                                     !.cpos = 0]), None)

\* Editable.kill_line
kill_line(e) ==
    IF e.err # NoErr \/ is_end_of_the_line(e) THEN Return(e, None)
    ELSE Return(print_line([e EXCEPT !.cut = Append(e.cut, PyFrom(e.s, -e.cpos)),
                                     !.s = PyTo(e.s, -e.cpos),
                                     !.cpos = 0]), None)

\* Editable.backward_kill_line
backward_kill_line(e) ==
    IF e.err # NoErr THEN e
    ELSE LET e1 == IF is_end_of_the_line(e)
                   THEN IF e.s # <<>> THEN cut_append(e, e.s) ELSE e
                   ELSE cut_append(e, PyTo(e.s, -e.cpos))
             e2 == clear_wrapped_lines(e1)
             ns == IF e2.cpos = 0 THEN <<>> ELSE PyFrom(e2.s, -e2.cpos)
         IN  Return(print_line([e2 EXCEPT !.s = ns, !.cpos = Len(ns)]), None)

\* Editable.beginning_of_line
beginning_of_line(e) ==
    IF e.err # NoErr THEN e
    ELSE Return([ScrMove(e, iy, ix) EXCEPT !.cpos = Len(e.s)], None)

\* Editable.end_of_line
end_of_line(e) ==
    IF e.err # NoErr THEN e
    ELSE LET cells == SumWidth(e.s) + ix
         IN  Return(ScrMove([e EXCEPT !.cpos = 0],
                            (cells \div TermW) + iy, cells % TermW), None)

\* Editable.yank
yank(e) ==
    IF e.err # NoErr \/ Len(e.cut) = 0 THEN Return(e, None)
    ELSE Return(print_line(addstr(e, e.cut[Len(e.cut)])), None)

\* for _ in xrange(n): self.backward_delete_character()
RECURSIVE bdc_times(_, _)
bdc_times(e, n) ==
    IF n <= 0 \/ e.err # NoErr THEN e
    ELSE bdc_times(backward_delete_character(e, TRUE), n - 1)

\* yank_pop that inserts the entry it has just deleted (index off by one).
yank_pop_same_entry(e, yank_index) ==
    IF e.err # NoErr \/ Len(e.cut) = 0 THEN Return(e, None)
    ELSE LET n == Len(e.cut)
             e1 == bdc_times(e, Len(e.cut[((yank_index + 1) % n) + 1]))
         IN  Return(print_line(addstr(e1, e.cut[((yank_index + 1) % n) + 1])), None)

\* Editable.yank_pop
yank_pop(e, yank_index) ==
    IF e.err # NoErr \/ Len(e.cut) = 0 THEN Return(e, None)
    ELSE LET n == Len(e.cut)
             e1 == bdc_times(e, Len(e.cut[((yank_index + 1) % n) + 1]))
         IN  Return(print_line(addstr(e1, e.cut[(yank_index % n) + 1])), None)

(***************************************************************************)
(* State machine: one action per editing operation of Editable.            *)
(***************************************************************************)
Ed == [s |-> s, cpos |-> cpos, cut |-> cut_buffer, y |-> y, x |-> x,
       err |-> err, ret |-> None]

\* The two editors: the main editor (CLIRepl) and the status bar.
Callers == {"clirepl", "statusbar"}

\* The size of the terminal when the application starts.
StartSize == [h |-> 24, w |-> 80]

\* App.init_wins and the windows of App.__init__: the main window has all
\* the rows of the terminal but the last, which is the status bar.
InitApp ==
    /\ DO_RESIZE = FALSE
    /\ terminal = StartSize
    /\ environ = StartSize
    /\ hw = StartSize
    /\ main_win = [h |-> StartSize.h - 1, w |-> StartSize.w]
    /\ status_win = [y |-> StartSize.h - 1, w |-> StartSize.w]
    /\ resize_pc = "loop"
    /\ history = <<>>
    /\ run_more = FALSE
    /\ run_pc = "prompt"
    /\ now = 0
    /\ last_key_press = [c \in Callers |-> 0]
    /\ paste_mode = [c \in Callers |-> FALSE]
    /\ caller = "clirepl"
    /\ repaints = 0

\* Dispatcher.__init__, the fields of CLIRepl.__init__ that the handlers of
\* the dispatcher use, and no lookup made.
InitDispatcher ==
    /\ meta = FALSE
    /\ raw = FALSE
    /\ previous_key = <<>>
    /\ self_yank_index = -2
    /\ in_search_mode = "None"
    /\ do_exit = FALSE
    /\ typed = <<>>
    /\ looked_up = <<>>
    /\ handlers = <<>>
    /\ result = ""
    /\ lookup_context = ""
    /\ precise = [keyname |-> <<>>, err |-> NoErr, calls |-> 0]
    /\ found = [function |-> "", err |-> NoErr]
    /\ matches_iter = [current_word |-> <<>>, matches |-> <<>>, index |-> -1,
                       is_wait |-> FALSE]
    /\ mi_calls = <<>>
    /\ self_matches = <<>>
    /\ rl_indices = <<>>
    /\ list_win_visible = FALSE
    /\ draw_failed = FALSE
    /\ list_box = [items |-> <<>>, index |-> -1, v_items |-> <<>>,
                   v_index |-> -1, rows |-> 0, cols |-> 0, wl |-> 0, w |-> 0,
                   max_h |-> 0, max_w |-> 0, nosep |-> FALSE,
                   height_offset |-> 0]
    /\ InitApp

\* The settings of the default configuration.
InitConfig ==
    /\ autocomplete_mode = "simple"
    /\ auto_display_list = TRUE

Init ==
    /\ InitDispatcher
    /\ InitConfig
    /\ s = <<>>
    /\ cpos = 0
    /\ cut_buffer = <<>>
    /\ y = iy
    /\ x = ix
    /\ err = NoErr
    /\ is_space_only_skip_char \in BOOLEAN
    /\ tab_length \in TabLengths
    /\ op = "init"
    /\ arg = 0
    /\ key = ""
    /\ ret = None
    /\ entries = <<>>
    /\ index = 0
    /\ saved_line = <<>>
    /\ allow_duplicates = TRUE
    /\ ignore_blank = TRUE
    /\ hist_line = <<>>
    /\ hist_ret = <<>>
    /\ yielded = <<>>
    /\ hist_file = [exists |-> FALSE, text |-> <<>>]
    /\ hist_length = 0
    /\ notified = 0
    /\ buffer = <<>>
    /\ source = <<>>

\* An exception unwinds the key loop: no operation runs after it.  No caller
\* in the repository passes mvc a delta other than 1 or -1, so the direct
\* calls of mvc (specification SpecMvc) are made from the states the editing
\* operations reach and are not continued.
DirectCalls == {"mvc", "mvc_roundtrip"}
Running == err = NoErr /\ op \notin DirectCalls

\* The line and the cut buffer are unbounded in the program; the model
\* explores the operations whose result holds at most MaxChars characters
\* (line and cut buffer together) and at most MaxCut cut-buffer entries.
RECURSIVE CutChars(_)
CutChars(cut) == IF cut = <<>> THEN 0 ELSE Len(Head(cut)) + CutChars(Tail(cut))
Fits(e) == Len(e.s) + CutChars(e.cut) <= MaxChars /\ Len(e.cut) <= MaxCut

\* The call `name` with argument a (and typed key k) leaves the editor as r.
Call(r, name, a, k) ==
    /\ Running
    /\ Fits(r)
    /\ s' = r.s
    /\ cpos' = r.cpos
    /\ cut_buffer' = r.cut
    /\ y' = r.y
    /\ x' = r.x
    /\ err' = r.err
    /\ ret' = r.ret
    /\ op' = name
    /\ arg' = a
    /\ key' = k
    /\ UNCHANGED <<is_space_only_skip_char, tab_length, hist_vars, push_vars,
                   dispatch_vars, lookup_vars, matches_vars,
                   tab_vars, loop_vars>>

SelfInsert == \E k \in Chars : Call(self_insert(Ed, k), "self_insert", 0, k)

BackwardCharacter == Call(backward_character(Ed), "backward_character", 0, "")

ForwardCharacter == Call(forward_character(Ed), "forward_character", 0, "")

BackwardWord == Call(backward_word(Ed), "backward_word", 0, "")

ForwardWord == Call(forward_word(Ed), "forward_word", 0, "")

BackwardDeleteCharacter ==
    \E delete_tabs \in BOOLEAN :
        Call(backward_delete_character(Ed, delete_tabs),
             "backward_delete_character", IF delete_tabs THEN 1 ELSE 0, "")

DeleteCharacter == Call(delete_character(Ed), "delete_character", 0, "")

KillWord == Call(kill_word(Ed), "kill_word", 0, "")

BackwardKillWord == Call(backward_kill_word(Ed), "backward_kill_word", 0, "")

KillLine == Call(kill_line(Ed), "kill_line", 0, "")

BackwardKillLine == Call(backward_kill_line(Ed), "backward_kill_line", 0, "")

BeginningOfLine == Call(beginning_of_line(Ed), "beginning_of_line", 0, "")

EndOfLine == Call(end_of_line(Ed), "end_of_line", 0, "")

Yank == Call(yank(Ed), "yank", 0, "")

YankPop ==
    \E yank_index \in YankIndices :
        Call(yank_pop(Ed, yank_index), "yank_pop", yank_index, "")

Next ==
    \/ SelfInsert
    \/ BackwardCharacter
    \/ ForwardCharacter
    \/ BackwardWord
    \/ ForwardWord
    \/ BackwardDeleteCharacter
    \/ DeleteCharacter
    \/ KillWord
    \/ BackwardKillWord
    \/ KillLine
    \/ BackwardKillLine
    \/ BeginningOfLine
    \/ EndOfLine
    \/ Yank
    \/ YankPop

Spec == Init /\ [][Next]_vars

(***************************************************************************)
(* Direct calls of Editable.mvc with any delta, alone and as the pair      *)
(* mvc(delta); mvc(-delta).                                                *)
(***************************************************************************)
Deltas == (-MaxDelta) .. MaxDelta

\* The result of the pair of calls: e1 after mvc(delta), e2 after mvc(-delta);
\* returns True when both calls did.
mvc_pair(e1, e2) ==
    Return(e2, IF e1.ret = True /\ e2.ret = True THEN True ELSE False)

mvc_back(e1, delta) == mvc_pair(e1, mvc(e1, -delta))

\* mvc(delta) followed by mvc(-delta)
mvc_roundtrip(e, delta) == mvc_back(mvc(e, delta), delta)

Mvc == \E i \in Deltas : Call(mvc(Ed, i), "mvc", i, "")

MvcRoundTrip == \E i \in Deltas : Call(mvc_roundtrip(Ed, i), "mvc_roundtrip", i, "")

NextMvc ==
    \/ Next
    \/ Mvc
    \/ MvcRoundTrip

SpecMvc == Init /\ [][NextMvc]_vars

(***************************************************************************)
(* The readline history: class History of bpython/history.py.  A line is   *)
(* a sequence of characters; entries[1] is the oldest entry.  index counts *)
(* back from the newest entry, 0 being the line in progress.               *)
(***************************************************************************)
MaxEntries == 2
MaxIndex == 3

\* The lines handed to History: blank, "a", "ba", and lines that still carry
\* their newline, as the lines of the history file do.
HistLines == {<<>>, <<"a">>, <<"b", "a">>, <<"a", "\n">>, <<"\n">>}

\* The history as a record, so that the methods are operators.
Hist == [entries |-> entries, index |-> index, saved_line |-> saved_line,
         err |-> NoErr, ret |-> <<>>, yielded |-> <<>>]

\* line.rstrip('\n')
RECURSIVE rstrip_newline(_)
rstrip_newline(line) ==
    IF line # <<>> /\ line[Len(line)] = "\n"
    THEN rstrip_newline(SubSeq(line, 1, Len(line) - 1))
    ELSE line

\* val.startswith(search_term)
startswith(val, search_term) ==
    Len(search_term) <= Len(val) /\ SubSeq(val, 1, Len(search_term)) = search_term

\* search_term in val
contains(val, search_term) ==
    \E i \in 0 .. (Len(val) - Len(search_term)) :
        SubSeq(val, i + 1, i + Len(search_term)) = search_term

\* try: while True: self.entries.remove(line) / except ValueError: pass
remove_all(es, line) == SelectSeq(es, LAMBDA v : v # line)

\* History.append_raw: the line as it is, whatever the entries hold.
append_raw(h, line0) == [h EXCEPT !.entries = Append(h.entries, line0)]

\* History.append
append(h, line0) ==
    LET line == rstrip_newline(line0)
    IN  IF line # <<>> \/ ~ignore_blank
        THEN [h EXCEPT !.entries =
                 Append(IF ~allow_duplicates THEN remove_all(h.entries, line)
                        ELSE h.entries, line)]
        ELSE h

\* History.enter
enter(h, line) == [h EXCEPT !.saved_line = line]

\* History.is_at_end / is_at_start
is_at_end(h) == h.index >= Len(h.entries) \/ h.index = -1
is_at_start(h) == h.index = 0

\* self.entries[i] as the value returned: IndexError when out of range.
ret_entry(h, i) ==
    IF PyValid(h.entries, i) THEN [h EXCEPT !.ret = PyAt(h.entries, i)]
    ELSE Raise(h, "IndexError")

\* History.last
last(h) == ret_entry(IF ~is_at_start(h) THEN [h EXCEPT !.index = 0] ELSE h, 0)

\* History.first
first_at(h) == ret_entry(h, -h.index)

first(h) ==
    first_at(IF ~is_at_end(h) THEN [h EXCEPT !.index = Len(h.entries)] ELSE h)

\* History.reset
reset(h) == [h EXCEPT !.index = 0, !.saved_line = <<>>]

\* The loop of the _find_*_iter generators over the selected entries vals:
\* the numbers idx + 1 of the values that match and were not seen before.
RECURSIVE find_iter(_, _, _, _, _)
find_iter(vals, idx, val_set, search_term, partial) ==
    IF idx >= Len(vals) THEN <<>>
    ELSE IF (IF partial THEN contains(vals[idx + 1], search_term)
                        ELSE startswith(vals[idx + 1], search_term))
            /\ vals[idx + 1] \notin val_set
    THEN <<idx + 1>> \o find_iter(vals, idx + 1, val_set \cup {vals[idx + 1]},
                                  search_term, partial)
    ELSE find_iter(vals, idx + 1, val_set, search_term, partial)

\* reversed(self.entries[:len(self.entries) - self.index])
older_entries(h) == Reverse(PyTo(h.entries, Len(h.entries) - h.index))

\* self.entries[len(self.entries) - self.index + 1:]
newer_entries(h) == PyFrom(h.entries, Len(h.entries) - h.index + 1)

_find_match_backward_iter(h, search_term) ==
    find_iter(older_entries(h), 0, {}, search_term, FALSE)

\* A backward substring search without val_set: every matching entry, also
\* one whose value was met before.
find_partial_match_backward_repeats(h, search_term) ==
    SelectSeq([i \in 1 .. Len(older_entries(h)) |-> i],
              LAMBDA i : contains(older_entries(h)[i], search_term))

_find_partial_match_backward_iter(h, search_term) ==
    find_iter(older_entries(h), 0, {}, search_term, TRUE)

_find_match_forward_iter(h, search_term) ==
    find_iter(newer_entries(h), 0, {}, search_term, FALSE)

_find_partial_match_forward_iter(h, search_term) ==
    find_iter(newer_entries(h), 0, {}, search_term, TRUE)

\* The iterables of back_iter / forward_iter: a finite list of numbers, or
\* itertools.count(1), written as the empty list with counting = TRUE.
back_iterable(h, start, search) ==
    IF search THEN _find_partial_match_backward_iter(h, h.saved_line)
    ELSE IF start THEN _find_match_backward_iter(h, h.saved_line)
    ELSE <<>>

forward_iterable(h, start, search) ==
    IF search THEN _find_partial_match_forward_iter(h, h.saved_line)
    ELSE IF start THEN _find_match_forward_iter(h, h.saved_line)
    ELSE <<>>

\* yield (self.entries[-self.index], self.index)
yield_entry(h) ==
    [h EXCEPT !.yielded = Append(h.yielded,
                                 [val |-> PyAt(h.entries, -h.index),
                                  idx |-> h.index])]

\* The code of back_iter after its loop.
back_iter_tail(h, counting) ==
    IF Len(h.entries) > 0
    THEN IF counting
         THEN IF PyValid(h.entries, -h.index) THEN yield_entry(h)
              ELSE Raise(h, "IndexError")
         ELSE h
    ELSE [h EXCEPT !.yielded = Append(h.yielded,
                                      [val |-> h.saved_line, idx |-> h.index])]

\* The for loop of back_iter from the k-th element of the iterable, for a
\* consumer that takes at most n values from the generator.
RECURSIVE back_iter_loop(_, _, _, _, _, _)
back_iter_loop(h, iterable, counting, original, k, n) ==
    IF Len(h.yielded) >= n THEN h
    ELSE IF ~counting /\ k > Len(iterable) THEN back_iter_tail(h, counting)
    ELSE LET i == IF counting THEN k ELSE iterable[k]
             h1 == [h EXCEPT !.index = i + original]
         IN  IF PyValid(h1.entries, -h1.index)
             THEN back_iter_loop(yield_entry(h1), iterable, counting,
                                 original, k + 1, n)
             ELSE back_iter_tail(h1, counting)

\* History.back_iter, consumed up to n values.
back_iter(h, start, search, n) ==
    back_iter_loop(h, back_iterable(h, start, search), ~start /\ ~search,
                   h.index, 1, n)

\* The for loop of forward_iter.
RECURSIVE forward_iter_loop(_, _, _, _, _, _)
forward_iter_loop(h, iterable, counting, original, k, n) ==
    IF Len(h.yielded) >= n THEN h
    ELSE IF ~counting /\ k > Len(iterable) THEN h
    ELSE LET i == IF counting THEN k ELSE iterable[k]
             h1 == [h EXCEPT !.index = original - i]
         IN  IF h1.index > 0
             THEN IF PyValid(h1.entries, -h1.index)
                  THEN forward_iter_loop(yield_entry(h1), iterable, counting,
                                         original, k + 1, n)
                  ELSE Raise(h1, "IndexError")
             ELSE h1

\* History.forward_iter, consumed up to n values.
forward_iter(h, start, search, n) ==
    IF h.index > 0
    THEN forward_iter_loop(h, forward_iterable(h, start, search),
                           ~start /\ ~search, h.index, 1, n)
    ELSE h

\* <generator>.next()[0]: the first value of the generator g, StopIteration
\* when it has none.
next_value(g) ==
    IF g.err # NoErr THEN g
    ELSE IF g.yielded = <<>> THEN Raise(g, "StopIteration")
    ELSE [g EXCEPT !.ret = g.yielded[1].val]

\* History.back
back(h, start, search) == next_value(back_iter(h, start, search, 1))

\* except StopIteration: return ""
forward_value(g) ==
    IF g.err = "StopIteration" THEN [g EXCEPT !.err = NoErr, !.ret = <<>>]
    ELSE g

\* History.forward
forward(h, start, search) ==
    forward_value(next_value(forward_iter(h, start, search, 1)))

(***************************************************************************)
(* State machine of the history: one action per method of History, and the *)
(* two handlers of CLIRepl that browse it.  History is constructed with    *)
(* either value of allow_duplicates and ignore_blank.                      *)
(***************************************************************************)
InitHistory ==
    /\ InitDispatcher
    /\ InitConfig
    /\ s = <<>>
    /\ cpos = 0
    /\ cut_buffer = <<>>
    /\ y = iy
    /\ x = ix
    /\ err = NoErr
    /\ is_space_only_skip_char = FALSE
    /\ tab_length \in TabLengths
    /\ op = "init"
    /\ arg = 0
    /\ key = ""
    /\ ret = None
    /\ entries = <<>>
    /\ index = 0
    /\ saved_line = <<>>
    /\ allow_duplicates \in BOOLEAN
    /\ ignore_blank \in BOOLEAN
    /\ hist_line = <<>>
    /\ hist_ret = <<>>
    /\ yielded = <<>>
    /\ hist_file = [exists |-> FALSE, text |-> <<>>]
    /\ hist_length = 0
    /\ notified = 0
    /\ buffer = <<>>
    /\ source = <<>>

\* The entries and the index are unbounded in the program; the model explores
\* the calls that leave at most MaxEntries entries and an index of at most
\* MaxIndex.
HistFits(h) == Len(h.entries) <= MaxEntries /\ h.index <= MaxIndex

\* start=False, search=False / start=True / search=True, numbered 0, 1, 2.
Modes == {0, 1, 2}
SearchModes == {1, 2}

\* The history is left as h by its method `name` called in mode a with the
\* line l.
HistResult(h, name, a, l) ==
    /\ hist_line' = l
    /\ entries' = h.entries
    /\ index' = h.index
    /\ saved_line' = h.saved_line
    /\ hist_ret' = h.ret
    /\ yielded' = h.yielded
    /\ op' = name
    /\ arg' = a
    /\ UNCHANGED <<allow_duplicates, ignore_blank>>

HistCall(h, name, a, l) ==
    /\ Running
    /\ HistFits(h)
    /\ HistResult(h, name, a, l)
    /\ err' = h.err
    /\ UNCHANGED <<s, cpos, cut_buffer, y, x, is_space_only_skip_char,
                   tab_length, key, ret, push_vars, dispatch_vars,
                   lookup_vars, matches_vars,
                   tab_vars, loop_vars>>

HistoryAppend ==
    \E l \in HistLines : HistCall(append(Hist, l), "append", 0, l)

HistoryEnter ==
    \E l \in {hl \in HistLines : rstrip_newline(hl) = hl} :
        HistCall(enter(Hist, l), "enter", 0, l)

HistoryBack ==
    \E m \in Modes : HistCall(back(Hist, m = 1, m = 2), "back", m, <<>>)

HistoryForward ==
    \E m \in Modes : HistCall(forward(Hist, m = 1, m = 2), "forward", m, <<>>)

HistoryFirst == HistCall(first(Hist), "first", 0, <<>>)

HistoryLast == HistCall(last(Hist), "last", 0, <<>>)

HistoryReset == HistCall(reset(Hist), "reset", 0, <<>>)

\* A whole scan of the generator, as in for m, i in back_iter(...).
HistoryBackIter ==
    \E m \in SearchModes :
        HistCall(back_iter(Hist, m = 1, m = 2, MaxEntries + 1), "back_iter", m,
                 <<>>)

HistoryForwardIter ==
    \E m \in SearchModes :
        HistCall(forward_iter(Hist, m = 1, m = 2, MaxEntries + 1),
                 "forward_iter", m, <<>>)

\* The editor after self.cpos = 0; self.clear_wrapped_lines().
browse_start(e) == clear_wrapped_lines([e EXCEPT !.cpos = 0])

\* self.s = <h.ret>; self.exit_search_mode(), whose redraw prints the prompt
\* and the line again; an exception of the history call leaves the line.
browse_finish(e, h) ==
    IF h.err # NoErr THEN Raise(e, h.err)
    ELSE print_line([e EXCEPT !.s = h.ret])

\* The handler `name` of CLIRepl leaves the history as h.
Browse(h, name) ==
    /\ Running
    /\ HistFits(h)
    /\ HistResult(h, name, 0, s)
    /\ \E e \in {browse_finish(browse_start(Ed), h)} :
        /\ s' = e.s
        /\ cpos' = e.cpos
        /\ y' = e.y
        /\ x' = e.x
        /\ err' = e.err
    /\ UNCHANGED <<cut_buffer, is_space_only_skip_char, tab_length, key, ret,
                   push_vars, dispatch_vars, lookup_vars, matches_vars,
                   tab_vars, loop_vars>>

\* CLIRepl.previous_history
PreviousHistory == Browse(back(enter(Hist, s), FALSE, FALSE), "previous_history")

\* CLIRepl.next_history
NextHistoryLine == Browse(forward(enter(Hist, s), FALSE, FALSE), "next_history")

NextHist ==
    \/ HistoryAppend
    \/ HistoryEnter
    \/ HistoryBack
    \/ HistoryForward
    \/ HistoryFirst
    \/ HistoryLast
    \/ HistoryReset
    \/ HistoryBackIter
    \/ HistoryForwardIter
    \/ PreviousHistory
    \/ NextHistoryLine

SpecHistory == InitHistory /\ [][NextHist]_vars

(***************************************************************************)
(* Repl.push and the history file (bpython/repl.py).  The file is its text, *)
(* a sequence of characters: History.save writes each entry followed by a  *)
(* newline, History.load appends each line of the text.                    *)
(***************************************************************************)
MaxBuffer == 1

\* The values of config.hist_length: 0 turns the history file off.
HistLengths == 0 .. (MaxEntries - 1)

\* The repl as a record.
Repl == [rl_history |-> Hist, buffer |-> buffer, hist_file |-> hist_file,
         notified |-> 0, source |-> source]

\* hfile.write(line); hfile.write('\n') for each line of es
RECURSIVE write_lines(_)
write_lines(es) ==
    IF es = <<>> THEN <<>>
    ELSE Head(es) \o <<"\n">> \o write_lines(Tail(es))

\* for line in hfile: the lines of the text, each with its newline, the last
\* one without when the text does not end in a newline; cur is the line
\* being read.
RECURSIVE read_lines(_, _)
read_lines(text, cur) ==
    IF text = <<>> THEN (IF cur = <<>> THEN <<>> ELSE <<cur>>)
    ELSE IF Head(text) = "\n"
    THEN <<Append(cur, "\n")>> \o read_lines(Tail(text), <<>>)
    ELSE read_lines(Tail(text), Append(cur, Head(text)))

\* for line in hfile: self.append(line)
RECURSIVE load_lines(_, _)
load_lines(h, ls) ==
    IF ls = <<>> THEN h ELSE load_lines(append(h, Head(ls)), Tail(ls))

\* History.load
load(h, text) == load_lines(h, read_lines(text, <<>>))

\* History.save: the text written for self.entries[-lines:]
save(h, lines) == write_lines(PyFrom(h.entries, -lines))

\* What a write that fails can leave of the file `file` when the text
\* `text` was to be written: the file as it was (it could not be opened), or
\* a file holding any part of the text.
FailedWrites(file, text) ==
    {file} \cup {[exists |-> TRUE, text |-> SubSeq(text, 1, k)] :
                    k \in 0 .. Len(text)}

\* self.rl_history.entries = []; if os.path.exists(histfilename): load
push_load(r) ==
    IF r.hist_file.exists
    THEN load([r.rl_history EXCEPT !.entries = <<>>], r.hist_file.text)
    ELSE [r.rl_history EXCEPT !.entries = <<>>]

\* A handler of the failed write that keeps the entries loaded from the file.
save_failed_keeps_loaded(r, h1, s_, left) ==
    [r EXCEPT !.rl_history = h1, !.notified = @ + 1, !.hist_file = left]

\* except EnvironmentError: notify; entries = oldhistory; append(s).  r is
\* the repl before the history was touched, h1 the history that was to be
\* saved, left the file that the failed write leaves.
save_failed(r, h1, s_, left) ==
    [r EXCEPT !.rl_history = append(r.rl_history, s_),
              !.notified = @ + 1,
              !.hist_file = left]

\* try: self.rl_history.save(histfilename, encoding, hist_length)
push_save(r, h1, s_, fails, left) ==
    IF fails THEN save_failed(r, h1, s_, left)
    ELSE [r EXCEPT !.rl_history = h1,
                   !.hist_file = [exists |-> TRUE,
                                  text |-> save(h1, hist_length)]]

\* if insert_into_history: ...
push_history(r, s_, fails, left) ==
    IF hist_length # 0
    THEN push_save(r, append(push_load(r), s_), s_, fails, left)
    ELSE [r EXCEPT !.rl_history = append(r.rl_history, s_)]

\* '\n'.join(self.buffer)
RECURSIVE join_newline(_)
join_newline(b) ==
    IF b = <<>> THEN <<>>
    ELSE IF Len(b) = 1 THEN b[1]
    ELSE Head(b) \o <<"\n">> \o join_newline(Tail(b))

\* more = self.interp.runsource('\n'.join(self.buffer)); if not more:
\* self.buffer = [].  The interpreter decides more.
push_run(r, more) ==
    [r EXCEPT !.source = join_newline(r.buffer),
              !.buffer = IF more THEN @ ELSE <<>>]

\* s = s.rstrip('\n'); self.buffer.append(s)
push_buffer(r, s_) == [r EXCEPT !.buffer = Append(@, s_)]

\* Repl.push
push(r, s0, insert_into_history, fails, left, more) ==
    push_run(IF insert_into_history
             THEN push_history(push_buffer(r, rstrip_newline(s0)),
                               rstrip_newline(s0), fails, left)
             ELSE push_buffer(r, rstrip_newline(s0)),
             more)

\* The history files found when the repl starts.
FileTexts == {<<>>, <<"a", "\n">>, <<"b", "a", "\n">>, <<"a">>,
              <<"a", "\n", "b", "a", "\n">>, <<"a", "\n", "a", "\n">>}

Files == {[exists |-> FALSE, text |-> <<>>]}
         \cup {[exists |-> TRUE, text |-> t] : t \in FileTexts}

\* Repl.__init__: History(allow_duplicates=config.hist_duplicates), loaded
\* from the history file when there is one.
InitPush ==
    /\ InitDispatcher
    /\ InitConfig
    /\ s = <<>>
    /\ cpos = 0
    /\ cut_buffer = <<>>
    /\ y = iy
    /\ x = ix
    /\ err = NoErr
    /\ is_space_only_skip_char = FALSE
    /\ tab_length \in TabLengths
    /\ op = "init"
    /\ arg = 0
    /\ key = ""
    /\ ret = None
    /\ allow_duplicates \in BOOLEAN
    /\ ignore_blank = TRUE
    /\ hist_file \in Files
    /\ hist_length \in HistLengths
    /\ entries = IF hist_file.exists
                 THEN load([entries |-> <<>>], hist_file.text).entries
                 ELSE <<>>
    /\ Len(entries) <= MaxEntries
    /\ index = 0
    /\ saved_line = <<>>
    /\ hist_line = <<>>
    /\ hist_ret = <<>>
    /\ yielded = <<>>
    /\ notified = 0
    /\ buffer = <<>>
    /\ source = <<>>

\* The repl is left as r by push(s0, ...); a = 1 when the write of the
\* history file failed.
PushCall(r, name, a, s0) ==
    /\ Running
    /\ HistFits(r.rl_history)
    /\ Len(r.buffer) <= MaxBuffer
    /\ HistResult(r.rl_history, name, a, s0)
    /\ hist_file' = r.hist_file
    /\ notified' = r.notified
    /\ buffer' = r.buffer
    /\ source' = r.source
    /\ UNCHANGED <<s, cpos, cut_buffer, y, x, err, is_space_only_skip_char,
                   tab_length, key, ret, hist_length, dispatch_vars,
                   lookup_vars, matches_vars,
                   tab_vars, loop_vars>>

\* push(s) when the history file is written, or is not in use.
Push ==
    \E s0 \in HistLines, more \in BOOLEAN :
        PushCall(push(Repl, s0, TRUE, FALSE, hist_file, more), "push", 0, s0)

\* push(s) when the write of the history file fails.
PushSaveFails ==
    /\ hist_length # 0
    /\ \E s0 \in HistLines, more \in BOOLEAN :
        \E left \in FailedWrites(hist_file,
                                 save(append(push_load(Repl),
                                             rstrip_newline(s0)),
                                      hist_length)) :
            PushCall(push(Repl, s0, TRUE, TRUE, left, more), "push", 1, s0)

\* push(s, False), as for the import of help at startup.
PushNoHistory ==
    \E s0 \in HistLines, more \in BOOLEAN :
        PushCall(push(Repl, s0, FALSE, FALSE, hist_file, more),
                 "push_no_history", 0, s0)

NextPush ==
    \/ Push
    \/ PushSaveFails
    \/ PushNoHistory

SpecPush == InitPush /\ [][NextPush]_vars

(***************************************************************************)
(* Key dispatch (bpython/key/dispatch_table.py, bpython/key/dispatcher.py). *)
(* A key name is a sequence of characters.  chr(i) for 0 <= i < 256 is the  *)
(* i-th entry of Chr: a character without a printable form is written      *)
(* "xHH".  In key names "," is the ASCII comma.                            *)
(***************************************************************************)
Chr ==
    <<"x00", "x01", "x02", "x03", "x04", "x05", "x06", "x07",
      "x08", "\t", "\n", "x0b", "x0c", "\r", "x0e", "x0f",
      "x10", "x11", "x12", "x13", "x14", "x15", "x16", "x17",
      "x18", "x19", "x1a", "x1b", "x1c", "x1d", "x1e", "x1f",
      " ", "!", "\"", "#", "$", "%", "&", "'",
      "(", ")", "*", "+", ",", "-", ".", "/",
      "0", "1", "2", "3", "4", "5", "6", "7",
      "8", "9", ":", ";", "<", "=", ">", "?",
      "@", "A", "B", "C", "D", "E", "F", "G",
      "H", "I", "J", "K", "L", "M", "N", "O",
      "P", "Q", "R", "S", "T", "U", "V", "W",
      "X", "Y", "Z", "[", "\\", "]", "^", "_",
      "x60", "a", "b", "c", "d", "e", "f", "g",
      "h", "i", "j", "k", "l", "m", "n", "o",
      "p", "q", "r", "s", "t", "u", "v", "w",
      "x", "y", "z", "{", "|", "}", "~", "x7f",
      "x80", "x81", "x82", "x83", "x84", "x85", "x86", "x87",
      "x88", "x89", "x8a", "x8b", "x8c", "x8d", "x8e", "x8f",
      "x90", "x91", "x92", "x93", "x94", "x95", "x96", "x97",
      "x98", "x99", "x9a", "x9b", "x9c", "x9d", "x9e", "x9f",
      "xa0", "xa1", "xa2", "xa3", "xa4", "xa5", "xa6", "xa7",
      "xa8", "xa9", "xaa", "xab", "xac", "xad", "xae", "xaf",
      "xb0", "xb1", "xb2", "xb3", "xb4", "xb5", "xb6", "xb7",
      "xb8", "xb9", "xba", "xbb", "xbc", "xbd", "xbe", "xbf",
      "xc0", "xc1", "xc2", "xc3", "xc4", "xc5", "xc6", "xc7",
      "xc8", "xc9", "xca", "xcb", "xcc", "xcd", "xce", "xcf",
      "xd0", "xd1", "xd2", "xd3", "xd4", "xd5", "xd6", "xd7",
      "xd8", "xd9", "xda", "xdb", "xdc", "xdd", "xde", "xdf",
      "xe0", "xe1", "xe2", "xe3", "xe4", "xe5", "xe6", "xe7",
      "xe8", "xe9", "xea", "xeb", "xec", "xed", "xee", "xef",
      "xf0", "xf1", "xf2", "xf3", "xf4", "xf5", "xf6", "xf7",
      "xf8", "xf9", "xfa", "xfb", "xfc", "xfd", "xfe", "xff">>

chr_(i) == Chr[i + 1]
ord_(c) == CHOOSE i \in 0 .. 255 : Chr[i + 1] = c

\* The key codes of curses: 0 .. KEY_MIN - 2 are characters, the codes from
\* KEY_MIN to KEY_MAX are function keys, KEY_F0 + n is the function key n.
KEY_MIN == 257
KEY_MAX == 511
KEY_F0 == 264

\* The named function keys that the handlers of dispatcher.py are bound to.
KeyNames ==
    (258 :> <<"K", "E", "Y", "_", "D", "O", "W", "N">>) @@
    (259 :> <<"K", "E", "Y", "_", "U", "P">>) @@
    (260 :> <<"K", "E", "Y", "_", "L", "E", "F", "T">>) @@
    (261 :> <<"K", "E", "Y", "_", "R", "I", "G", "H", "T">>) @@
    (262 :> <<"K", "E", "Y", "_", "H", "O", "M", "E">>) @@
    (263 :> <<"K", "E", "Y", "_", "B", "A", "C", "K", "S", "P", "A", "C", "E">>) @@
    (330 :> <<"K", "E", "Y", "_", "D", "C">>) @@
    (338 :> <<"K", "E", "Y", "_", "N", "P", "A", "G", "E">>) @@
    (339 :> <<"K", "E", "Y", "_", "P", "P", "A", "G", "E">>) @@
    (353 :> <<"K", "E", "Y", "_", "B", "T", "A", "B">>) @@
    (360 :> <<"K", "E", "Y", "_", "E", "N", "D">>)

Digits == <<"0", "1", "2", "3", "4", "5", "6", "7", "8", "9">>

\* '%s' % n for 0 <= n < 100
str_(n) ==
    IF n < 10 THEN <<Digits[n + 1]>>
    ELSE <<Digits[(n \div 10) + 1], Digits[(n % 10) + 1]>>

\* curses.keyname(i) for a character code below 128
keyname_ascii(i) ==
    IF i < 32 THEN <<"^", chr_(i + 64)>>
    ELSE IF i = 127 THEN <<"^", "?">>
    ELSE <<chr_(i)>>

\* curses.keyname(i); the empty name for a code that has none.
keyname(i) ==
    IF i < 128 THEN keyname_ascii(i)
    ELSE IF i < 256 THEN <<"M", "-">> \o keyname_ascii(i - 128)
    ELSE IF i \in DOMAIN KeyNames THEN KeyNames[i]
    ELSE IF KEY_F0 <= i /\ i < KEY_F0 + 64
    THEN <<"K", "E", "Y", "_", "F", "(">> \o str_(i - KEY_F0) \o <<")">>
    ELSE <<>>

\* name.lower()
lower(name) ==
    [p \in 1 .. Len(name) |->
        IF \E i \in 65 .. 90 : chr_(i) = name[p]
        THEN chr_(ord_(name[p]) + 32) ELSE name[p]]

\* name.replace(old, new, 1) for a name that starts with old
replace(name, old, new) == new \o SubSeq(name, Len(old) + 1, Len(name))

\* d[k] = v
Put(d, k, v) == (k :> v) @@ d

\* d[k] = v for each k of ks in turn
RECURSIVE PutAll(_, _, _)
PutAll(d, ks, v) ==
    IF ks = <<>> THEN d ELSE PutAll(Put(d, Head(ks), v), Tail(ks), v)

EmptyDict == [n \in {} |-> <<>>]

\* The alias names that _populate gives the character with the long name
\* long_keyname, in the order of the assignments.
char_aliases(long_keyname) ==
    <<long_keyname>> \o
    (IF startswith(long_keyname, <<"M", "-">>)
     THEN <<replace(long_keyname, <<"M", "-">>, <<"m", "-">>)>> \o
          (IF startswith(long_keyname, <<"M", "-", "^">>)
           THEN <<replace(long_keyname, <<"M", "-", "^">>,
                          <<"M", "-", "C", "-">>),
                  replace(long_keyname, <<"M", "-", "^">>,
                          <<"m", "-", "c", "-">>),
                  lower(replace(long_keyname, <<"M", "-", "^">>,
                                <<"m", "-", "c", "-">>))>>
           ELSE <<>>)
     ELSE IF startswith(long_keyname, <<"^">>)
     THEN <<replace(long_keyname, <<"^">>, <<"C", "-">>),
            replace(lower(long_keyname), <<"^">>, <<"C", "-">>),
            replace(long_keyname, <<"^">>, <<"c", "-">>),
            replace(lower(long_keyname), <<"^">>, <<"c", "-">>)>>
     ELSE <<>>)

\* The assignments self._alias_keymap[name] = chr(i) that the first loop of
\* _populate makes for the code i: every alias name of the code gets the
\* same value.
char_alias_entries(i) ==
    LET names == char_aliases(keyname(i))
    IN  [n \in {names[p] : p \in 1 .. Len(names)} |-> <<chr_(i)>>]

\* The alias map after the assignments for the codes lo .. hi in turn: an
\* assignment for a later code replaces the one for an earlier code.
RECURSIVE populate_aliases(_, _)
populate_aliases(lo, hi) ==
    IF lo = hi THEN char_alias_entries(lo) @@ EmptyDict
    ELSE populate_aliases(((lo + hi) \div 2) + 1, hi)
             @@ populate_aliases(lo, (lo + hi) \div 2)

\* for i in xrange(curses.KEY_MAX): ... : the two maps after the first loop
\* of _populate.
populate_codes ==
    [_keymap |->
        [n \in {<<chr_(i)>> : i \in 0 .. (KEY_MIN - 2)}
               \cup ({keyname(i) : i \in (KEY_MIN - 1) .. (KEY_MAX - 1)}
                     \ {<<>>}) |->
            IF Len(n) = 1 THEN ord_(n[1])
            ELSE CHOOSE i \in (KEY_MIN - 1) .. (KEY_MAX - 1) : keyname(i) = n]
        @@ EmptyDict,
     _alias_keymap |-> populate_aliases(0, KEY_MIN - 2)]

\* The alias names that the second loop of _populate gives the key k.
key_aliases(k) ==
    IF startswith(k, <<"K", "E", "Y", "_", "F", "(">>)
    THEN {lower(k),
          PyTo(replace(k, <<"K", "E", "Y", "_", "F", "(">>, <<"F">>), -1),
          PyTo(replace(k, <<"K", "E", "Y", "_", "F", "(">>, <<"f">>), -1)}
    ELSE IF startswith(k, <<"K", "E", "Y", "_">>)
    THEN {lower(k),
          replace(k, <<"K", "E", "Y", "_">>, <<>>),
          lower(replace(k, <<"K", "E", "Y", "_">>, <<>>))}
    ELSE {}

\* The assignments self._alias_keymap[name] = k that the second loop of
\* _populate makes for the keys of keymap.
key_alias_entries(keymap) ==
    UNION {{[name |-> a, keyname |-> k] : a \in key_aliases(k)} :
              k \in DOMAIN keymap}

\* The alias map m after the assignments es.
assign_all(m, es) ==
    [n \in {e.name : e \in es} |->
        (CHOOSE e \in es : e.name = n).keyname] @@ m

\* for k in self._keymap: ...
populate_keys(t) ==
    [t EXCEPT !._alias_keymap =
        assign_all(t._alias_keymap, key_alias_entries(t._keymap))]

\* for i in xrange(12): the shifted function keys
RECURSIVE populate_shifted(_, _)
populate_shifted(d, i) ==
    IF i >= 12 THEN d
    ELSE populate_shifted(
             PutAll(d, <<<<"S", "-", "F">> \o str_(i + 1),
                         <<"s", "-", "f">> \o str_(i + 1)>>,
                    <<"K", "E", "Y", "_", "F", "(">> \o str_(i + 13)
                        \o <<")">>),
             i + 1)

\* The assignments of _populate for a platform other than Windows, and for
\* ESC; m is the alias map before them.
populate_named(m) ==
    LET d1 == Put(m, <<"C", "_", "B", "A", "C", "K">>, <<chr_(8)>>)
        d2 == Put(d1, <<"M", "-", "C", "_", "B", "A", "C", "K">>,
                  d1[<<"m", "-">> \o keyname(8)])
        d3 == Put(d2, <<"B", "A", "C", "K", "S", "P">>, <<chr_(127)>>)
        d4 == Put(d3, <<"M", "-", "B", "A", "C", "K", "S", "P">>,
                  d3[<<"m", "-">> \o keyname(127)])
        d5 == Put(d4, <<"E", "S", "C">>, <<chr_(27)>>)
        d6 == Put(d5, <<"M", "-", "E", "S", "C">>,
                  d5[<<"M", "-">> \o keyname(27)])
    IN  Put(d6, <<"m", "-", "E", "S", "C">>, d6[<<"M", "-">> \o keyname(27)])

\* DispatchTable._populate: the two maps of the table.
_populate ==
    LET t == populate_keys(populate_codes)
    IN  [t EXCEPT !._alias_keymap =
            populate_named(populate_shifted(t._alias_keymap, 0))]

_keymap == _populate._keymap
_alias_keymap == _populate._alias_keymap

\* ambiguous_keyname.encode(getpreferredencoding()): the key names of the
\* model are ASCII, which every preferred encoding leaves as it is.
encode(ambiguous_keyname) == ambiguous_keyname

\* One call of _get_precise_keyname that looks for an alias before it looks
\* for the key itself.
precise_step_alias_first(ambiguous_keyname) ==
    IF ambiguous_keyname \in DOMAIN _alias_keymap
    THEN [done |-> FALSE, keyname |-> _alias_keymap[ambiguous_keyname]]
    ELSE [done |-> TRUE, keyname |-> ambiguous_keyname]

\* One call of _get_precise_keyname: the name it returns (done), or the name
\* it calls itself with.
precise_step(ambiguous_keyname) ==
    IF ambiguous_keyname \in DOMAIN _keymap
    THEN [done |-> TRUE, keyname |-> ambiguous_keyname]
    ELSE IF ambiguous_keyname \in DOMAIN _alias_keymap
    THEN [done |-> FALSE, keyname |-> _alias_keymap[ambiguous_keyname]]
    ELSE [done |-> TRUE, keyname |-> ambiguous_keyname]

\* The calls of _get_precise_keyname that follow the call that made the step
\* r; called are the names of the calls made so far.  A call with a name
\* that an earlier call had goes round a cycle: the recursion does not
\* return, Python ends it with RuntimeError (maximum recursion depth
\* exceeded).
RECURSIVE precise_calls(_, _)
precise_calls(r, called) ==
    IF r.done
    THEN [keyname |-> r.keyname, err |-> NoErr, calls |-> Len(called)]
    ELSE IF \E p \in 1 .. Len(called) : called[p] = r.keyname
    THEN [keyname |-> r.keyname, err |-> "RuntimeError",
          calls |-> Len(called)]
    ELSE precise_calls(precise_step(r.keyname), Append(called, r.keyname))

\* DispatchTable._get_precise_keyname
_get_precise_keyname(ambiguous_keyname) ==
    precise_calls(precise_step(encode(ambiguous_keyname)),
                  <<encode(ambiguous_keyname)>>)

\* BLANK.split(name), without the empty pieces (filter(bool, ...)); cur is
\* the piece being read.
RECURSIVE split_blank(_, _)
split_blank(name, cur) ==
    IF name = <<>> THEN (IF cur = <<>> THEN <<>> ELSE <<cur>>)
    ELSE IF Head(name) = " "
    THEN (IF cur = <<>> THEN <<>> ELSE <<cur>>) \o split_blank(Tail(name), <<>>)
    ELSE split_blank(Tail(name), Append(cur, Head(name)))

\* The decorators of class Dispatcher, in the order of the file: the table
\* (set_handler_on, set_handler_on_clirepl, set_handler_on_statusbar), the
\* key names and the method.
Decorators ==
    <<
      [table |-> "global", function |-> "do_raw",
       ambiguous_keyname |-> <<"C", "-", "v">>],
      [table |-> "global", function |-> "do_backward_delete_character",
       ambiguous_keyname |-> <<"K", "E", "Y", "_", "B", "A", "C", "K", "S", "P", "A", "C", "E", " ", "B", "A", "C", "K", "S", "P">>],
      [table |-> "global", function |-> "do_delete_character",
       ambiguous_keyname |-> <<"K", "E", "Y", "_", "D", "C", " ", "C", "-", "d">>],
      [table |-> "global", function |-> "do_forward_character",
       ambiguous_keyname |-> <<"K", "E", "Y", "_", "R", "I", "G", "H", "T", " ", "C", "-", "f">>],
      [table |-> "global", function |-> "do_backward_character",
       ambiguous_keyname |-> <<"K", "E", "Y", "_", "L", "E", "F", "T", " ", "C", "-", "b">>],
      [table |-> "global", function |-> "do_backward_word",
       ambiguous_keyname |-> <<"M", "-", "b">>],
      [table |-> "global", function |-> "do_forward_word",
       ambiguous_keyname |-> <<"M", "-", "f">>],
      [table |-> "global", function |-> "do_beginning_of_line",
       ambiguous_keyname |-> <<"K", "E", "Y", "_", "H", "O", "M", "E", " ", "C", "-", "a">>],
      [table |-> "global", function |-> "do_end_of_line",
       ambiguous_keyname |-> <<"K", "E", "Y", "_", "E", "N", "D", " ", "C", "-", "e">>],
      [table |-> "global", function |-> "do_kill_line",
       ambiguous_keyname |-> <<"C", "-", "k">>],
      [table |-> "global", function |-> "do_yank",
       ambiguous_keyname |-> <<"C", "-", "y">>],
      [table |-> "global", function |-> "do_yank_pop",
       ambiguous_keyname |-> <<"M", "-", "y">>],
      [table |-> "global", function |-> "do_backward_kill_word",
       ambiguous_keyname |-> <<"C", "-", "w", " ", "M", "-", "B", "A", "C", "K", "S", "P">>],
      [table |-> "global", function |-> "do_kill_word",
       ambiguous_keyname |-> <<"M", "-", "d">>],
      [table |-> "global", function |-> "do_backward_kill_line",
       ambiguous_keyname |-> <<"C", "-", "u">>],
      [table |-> "global", function |-> "do_backtab",
       ambiguous_keyname |-> <<"K", "E", "Y", "_", "B", "T", "A", "B">>],
      [table |-> "global", function |-> "do_padminus",
       ambiguous_keyname |-> <<"P", "A", "D", "M", "I", "N", "U", "S">>],
      [table |-> "global", function |-> "do_padplus",
       ambiguous_keyname |-> <<"P", "A", "D", "P", "L", "U", "S">>],
      [table |-> "global", function |-> "do_padslash",
       ambiguous_keyname |-> <<"P", "A", "D", "S", "L", "A", "S", "H">>],
      [table |-> "global", function |-> "do_padstar",
       ambiguous_keyname |-> <<"P", "A", "D", "S", "T", "A", "R">>],
      [table |-> "global", function |-> "do_accept_line",
       ambiguous_keyname |-> <<"\n", " ", "\r", " ", "P", "A", "D", "E", "N", "T", "E", "R">>],
      [table |-> "clirepl", function |-> "do_tab",
       ambiguous_keyname |-> <<"\t", ",", " ", "C", "-", "i">>],
      [table |-> "clirepl", function |-> "do_suspend",
       ambiguous_keyname |-> <<"C", "-", "z">>],
      [table |-> "clirepl", function |-> "do_beginning_of_history",
       ambiguous_keyname |-> <<"K", "E", "Y", "_", "P", "P", "A", "G", "E", " ", "\\", "S", " ", "M", "-", "<">>],
      [table |-> "clirepl", function |-> "do_end_of_history",
       ambiguous_keyname |-> <<"K", "E", "Y", "_", "N", "P", "A", "G", "E", " ", "\\", "T", " ", "M", "-", ">">>],
      [table |-> "clirepl", function |-> "do_clear_screen",
       ambiguous_keyname |-> <<"C", "-", "l">>],
      [table |-> "clirepl", function |-> "do_undo",
       ambiguous_keyname |-> <<"C", "-", "_">>],
      [table |-> "clirepl", function |-> "do_search_history",
       ambiguous_keyname |-> <<"C", "-", "s">>],
      [table |-> "clirepl", function |-> "do_reverse_search_history",
       ambiguous_keyname |-> <<"C", "-", "r">>],
      [table |-> "clirepl", function |-> "debug",
       ambiguous_keyname |-> <<"C", "-", "x">>],
      [table |-> "clirepl", function |-> "do_insert_last_argument",
       ambiguous_keyname |-> <<"M", "-", ".", " ", "M", "-", "_">>],
      [table |-> "clirepl", function |-> "do_previous_history",
       ambiguous_keyname |-> <<"K", "E", "Y", "_", "U", "P", " ", "C", "-", "p">>],
      [table |-> "clirepl", function |-> "do_next_history",
       ambiguous_keyname |-> <<"K", "E", "Y", "_", "D", "O", "W", "N", " ", "C", "-", "n">>],
      [table |-> "clirepl", function |-> "do_delete_character_or_exit",
       ambiguous_keyname |-> <<"C", "-", "d">>],
      [table |-> "clirepl", function |-> "do_cbackspace",
       ambiguous_keyname |-> <<"C", "_", "B", "A", "C", "K">>],
      [table |-> "clirepl", function |-> "do_prefix_meta",
       ambiguous_keyname |-> <<"E", "S", "C">>],
      [table |-> "statusbar", function |-> "do_cancel",
       ambiguous_keyname |-> <<"E", "S", "C">>]
    >>

\* for keyname in keynames: table[keyname] = function
RECURSIVE set_handlers(_, _, _)
set_handlers(d, keynames, function) ==
    IF keynames = <<>> THEN d
    ELSE set_handlers(Put(d, _get_precise_keyname(Head(keynames)).keyname,
                          function),
                      Tail(keynames), function)

\* set_handler_on / set_handler_on_clirepl / set_handler_on_statusbar
set_handler_on(tables, dec) ==
    [tables EXCEPT ![dec.table] =
        set_handlers(@, split_blank(dec.ambiguous_keyname, <<>>),
                     dec.function)]

RECURSIVE decorate(_, _)
decorate(tables, decs) ==
    IF decs = <<>> THEN tables
    ELSE decorate(set_handler_on(tables, Head(decs)), Tail(decs))

\* The three tables after the module dispatcher.py is loaded:
\* _dispatch_table, _repl_dispatch_table and _statusbar_dispatch_table.
_dispatch_tables ==
    decorate([global |-> EmptyDict, clirepl |-> EmptyDict,
              statusbar |-> EmptyDict], Decorators)

\* A lookup that tries the table of the main editor for every context.
get_handler_repl_table_first(context, ambiguous_keyname) ==
    LET k == _get_precise_keyname(ambiguous_keyname)
    IN  IF k.err # NoErr THEN [function |-> "", err |-> k.err]
        ELSE IF k.keyname \in DOMAIN _dispatch_tables.clirepl
        THEN [function |-> _dispatch_tables.clirepl[k.keyname], err |-> NoErr]
        ELSE IF k.keyname \in DOMAIN _dispatch_tables.global
        THEN [function |-> _dispatch_tables.global[k.keyname], err |-> NoErr]
        ELSE [function |-> "", err |-> "CannotFindHandler"]

\* DispatchTable.get_handler_on_clirepl / get_handler_on_statusbar, for the
\* context "clirepl" or "statusbar"
get_handler(context, ambiguous_keyname) ==
    LET k == _get_precise_keyname(ambiguous_keyname)
    IN  IF k.err # NoErr THEN [function |-> "", err |-> k.err]
        ELSE IF k.keyname \in DOMAIN _dispatch_tables[context]
        THEN [function |-> _dispatch_tables[context][k.keyname],
              err |-> NoErr]
        ELSE IF k.keyname \in DOMAIN _dispatch_tables.global
        THEN [function |-> _dispatch_tables.global[k.keyname], err |-> NoErr]
        ELSE [function |-> "", err |-> "CannotFindHandler"]

(***************************************************************************)
(* The key dispatcher of the main editor (class Dispatcher, owner CLIRepl). *)
(* A key is the string that get_key returns: one character, or the curses  *)
(* name of a function key.                                                 *)
(***************************************************************************)
KEY_LEFT == <<"K", "E", "Y", "_", "L", "E", "F", "T">>

\* The keys typed: two letters, ESC, C-v, C-d, Enter, C-g (a control key
\* with no handler), C-r, C-s, C-h (C_BACK) and the left-arrow key.
TypedKeys ==
    {<<"a">>, <<"b">>, <<"x1b">>, <<"x16">>, <<"x04">>, <<"\n">>, <<"x07">>,
     <<"x12">>, <<"x13">>, <<"x08">>, KEY_LEFT}

\* unicodedata.category(c) == 'Cc' for a character below 256
category_Cc(c) == ord_(c) \in (0 .. 31) \cup (127 .. 159)

\* CLIRepl.addstr: Editable.addstr(self, s), then self.matches_iter.reset():
\* class MatchesIterator has no attribute reset.
CLIRepl_addstr(e, t) ==
    LET e1 == addstr(e, t)
    IN  IF e1.err # NoErr THEN e1 ELSE Raise(e1, "AttributeError")

\* Editable.self_insert of a CLIRepl: self.addstr is CLIRepl.addstr.
CLIRepl_self_insert(e, k) == Return(print_line(CLIRepl_addstr(e, k)), None)

\* CLIRepl.backward_delete_character: the one of Editable, then
\* self.matches_iter.reset().
CLIRepl_backward_delete_character(e, delete_tabs) ==
    LET e1 == backward_delete_character(e, delete_tabs)
    IN  IF e1.err # NoErr THEN e1 ELSE Raise(e1, "AttributeError")

\* Editable.delete_character of a CLIRepl.
CLIRepl_delete_character(e) ==
    IF e.err # NoErr \/ is_empty_line(e) THEN Return(e, None)
    ELSE LET e1 == mvc(e, -1)
         IN  IF e1.err = NoErr /\ e1.ret = True
             THEN Return(CLIRepl_backward_delete_character(e1, FALSE), None)
             ELSE Return(e1, None)

\* self.echo("\n"): the cursor goes to the start of the next row.
echo_newline(e) ==
    IF e.err # NoErr THEN e ELSE [e EXCEPT !.y = e.y + 1, !.x = 0]

\* Editable.accept_line
accept_line(e) ==
    Return(echo_newline(print_line(mvc_times(e, -1, e.cpos))), None)

\* CLIRepl.redraw with the prompt of the line as the only text of the
\* screen: the prompt is written again from the top of the window, the
\* origin of the line is where it ends, and the line is printed.
redraw(e) == print_line(e)

\* The dispatcher and its owner.
Disp ==
    [meta |-> meta, raw |-> raw, previous_key |-> previous_key,
     e |-> Ed, rl_history |-> Hist, in_search_mode |-> in_search_mode,
     do_exit |-> do_exit, looked_up |-> <<>>, handlers |-> <<>>,
     result |-> "", yank_index |-> self_yank_index,
     owner |-> "clirepl"]

Called(d, function) == [d EXCEPT !.handlers = Append(@, function)]

\* CLIRepl.search_history and CLIRepl.reverse_search_history (mode "search"
\* and "reverse") on an empty line: nothing of the history is listed
\* (if self.s and len(self.matches) > 0 fails), the screen is drawn again.
search_history_mode(d, mode) ==
    [d EXCEPT !.e = redraw(clear_wrapped_lines(d.e)),
              !.rl_history = enter(d.rl_history, d.e.s),
              !.in_search_mode = mode]

\* CLIRepl.exit_search_mode
exit_search_mode(d) ==
    [d EXCEPT !.in_search_mode = "None", !.e = redraw(d.e)]

\* accept_line that leaves the search mode as it is.
CLIRepl_accept_line_in_search_mode(d) ==
    [d EXCEPT !.e = accept_line(d.e),
              !.rl_history = reset(d.rl_history)]

\* CLIRepl.accept_line
CLIRepl_accept_line(d) ==
    [d EXCEPT !.e = accept_line(d.e),
              !.rl_history = reset(d.rl_history),
              !.in_search_mode = "None"]

Failed(r) == r.e.err # NoErr
Fail(r, exc) == [r EXCEPT !.e = Raise(@, exc)]

\* CLIRepl.previous_history, for the history h left by rl_history.back().
previous_history_line(r, h) ==
    IF h.err # NoErr THEN Fail(r, h.err)
    ELSE exit_search_mode([r EXCEPT !.e.s = h.ret, !.rl_history = h])

previous_history(r) ==
    previous_history_line([r EXCEPT !.e = clear_wrapped_lines(
                                              [@ EXCEPT !.cpos = 0])],
                          back(enter(r.rl_history, r.e.s), FALSE, FALSE))

\* Dispatcher.do_previous_history
do_previous_history(d) == [previous_history(d) EXCEPT !.result = ""]

\* DispatchTable.smart_match for a list of key names.
smart_match(ambiguous_keyname, list) ==
    _get_precise_keyname(ambiguous_keyname).keyname \in
        {_get_precise_keyname(n).keyname : n \in list}

\* Editable.yank of a CLIRepl: self.addstr is CLIRepl.addstr.
CLIRepl_yank(e) ==
    IF e.err # NoErr \/ Len(e.cut) = 0 THEN Return(e, None)
    ELSE Return(print_line(CLIRepl_addstr(e, e.cut[Len(e.cut)])), None)

\* for _ in xrange(n): self.backward_delete_character(), of a CLIRepl.
RECURSIVE CLIRepl_bdc_times(_, _)
CLIRepl_bdc_times(e, n) ==
    IF n <= 0 \/ e.err # NoErr THEN e
    ELSE CLIRepl_bdc_times(CLIRepl_backward_delete_character(e, TRUE), n - 1)

\* Editable.yank_pop of a CLIRepl.
CLIRepl_yank_pop(e, index_) ==
    IF e.err # NoErr \/ Len(e.cut) = 0 THEN Return(e, None)
    ELSE Return(print_line(CLIRepl_addstr(
                    CLIRepl_bdc_times(
                        e, Len(e.cut[((index_ + 1) % Len(e.cut)) + 1])),
                    e.cut[(index_ % Len(e.cut)) + 1])), None)

\* Dispatcher.do_kill_line
do_kill_line(d) == [d EXCEPT !.e = kill_line(d.e), !.result = ""]

\* Dispatcher.do_yank
do_yank(d) ==
    IF Len(d.e.cut) > 0 /\ CLIRepl_yank(d.e).err # NoErr
    THEN [d EXCEPT !.e = CLIRepl_yank(d.e)]
    ELSE [d EXCEPT !.e = CLIRepl_yank(d.e), !.yank_index = -2,
                   !.result = ""]

\* Dispatcher.do_yank_pop
do_yank_pop(d) ==
    IF ~smart_match(d.previous_key, {<<"C", "-", "y">>, <<"M", "-", "y">>})
    THEN [d EXCEPT !.result = ""]
    ELSE IF Len(d.e.cut) > 0 /\ CLIRepl_yank_pop(d.e, d.yank_index).err # NoErr
    THEN [d EXCEPT !.e = CLIRepl_yank_pop(d.e, d.yank_index)]
    ELSE [d EXCEPT !.e = CLIRepl_yank_pop(d.e, d.yank_index),
                   !.yank_index = @ - 1, !.result = ""]

\* Editable.self_insert of the status bar, for the key k.
Editable_self_insert(e, k) == Return(print_line(addstr(e, k)), None)

\* Dispatcher.do_self_insert
do_self_insert(d, k) ==
    [Called(d, "do_self_insert") EXCEPT
        !.e = IF d.owner = "clirepl" THEN CLIRepl_self_insert(d.e, k)
              ELSE Editable_self_insert(d.e, k),
        !.result = ""]

\* Dispatcher.do_raw
do_raw(d) == [d EXCEPT !.raw = TRUE, !.result = ""]

\* do_prefix_meta that sets meta in search mode as well.
do_prefix_meta_in_search_mode(d) == [d EXCEPT !.meta = TRUE, !.result = ""]

\* Dispatcher.do_prefix_meta
do_prefix_meta(d) ==
    IF d.in_search_mode # "None"
    THEN [exit_search_mode(d) EXCEPT !.result = ""]
    ELSE [d EXCEPT !.meta = TRUE, !.result = ""]

\* Dispatcher.do_delete_character_or_exit
do_delete_character_or_exit(d) ==
    IF d.e.s = <<>> THEN [d EXCEPT !.do_exit = TRUE, !.result = "None"]
    ELSE [d EXCEPT !.e = CLIRepl_delete_character(d.e), !.result = ""]

\* Dispatcher.do_search_history and Dispatcher.do_reverse_search_history
\* (mode "search" and "reverse") on an empty line.
do_search_history_mode(d, mode) ==
    [search_history_mode(d, mode) EXCEPT !.result = ""]

\* if self.meta: key = u("M-") + u(curses.keyname(ord(key))), or
\* u("M-") + key when ord raises TypeError (the key is not one character).
run_key(d, k) ==
    IF ~d.meta THEN k
    ELSE IF Len(k) = 1 THEN <<"M", "-">> \o keyname(ord_(k[1]))
    ELSE <<"M", "-">> \o k

\* run that leaves meta as it is.
run_meta_kept(d) == d

\* if self.meta: ...; self.meta = False
run_meta(d) == IF d.meta THEN [d EXCEPT !.meta = FALSE] ELSE d

\* An exception leaves run at once: the assignments that follow the call
\* are not made.
Raised(d) == d.e.err # NoErr

\* if not self.meta: self.previous_key = key
run_previous_key(d, k) ==
    IF Raised(d) \/ d.meta THEN d ELSE [d EXCEPT !.previous_key = k]

RECURSIVE run(_, _)

\* handler(self), for the handlers of the keys typed.
call_handler(d, function) ==
    LET d1 == Called(d, function)
    IN  CASE function = "do_raw" -> do_raw(d1)
          [] function = "do_prefix_meta" -> do_prefix_meta(d1)
          [] function = "do_accept_line" ->
                IF d1.owner = "clirepl"
                THEN [CLIRepl_accept_line(d1) EXCEPT !.result = "None"]
                ELSE [d1 EXCEPT !.e = accept_line(d1.e), !.result = "None"]
          [] function = "do_delete_character_or_exit" ->
                do_delete_character_or_exit(d1)
          [] function = "do_backward_character" ->
                [d1 EXCEPT !.e = backward_character(d1.e), !.result = ""]
          [] function = "do_backward_word" ->
                [d1 EXCEPT !.e = backward_word(d1.e), !.result = ""]
          [] function = "do_search_history" ->
                do_search_history_mode(d1, "search")
          [] function = "do_reverse_search_history" ->
                do_search_history_mode(d1, "reverse")
          [] function = "do_previous_history" -> do_previous_history(d1)
          [] function = "do_kill_line" -> do_kill_line(d1)
          [] function = "do_yank" -> do_yank(d1)
          [] function = "do_yank_pop" -> do_yank_pop(d1)
          [] function = "do_cbackspace" ->
                LET d2 == [d1 EXCEPT !.e = backward_kill_line(d1.e)]
                IN  IF Raised(d2) THEN d2 ELSE run(d2, <<"\n">>)
          [] function = "do_cancel" ->
                LET d2 == [d1 EXCEPT !.e = backward_kill_line(d1.e)]
                IN  IF Raised(d2) THEN d2 ELSE run(d2, <<"\n">>)

\* try: handler = self.get_handler(key); result = handler(self)
\* except CannotFindHandler: ...
run_dispatch(d, k) ==
    LET h == get_handler(d.owner, k)
        d1 == [d EXCEPT !.looked_up = Append(@, k)]
    IN  IF h.err = NoErr THEN call_handler(d1, h.function)
        ELSE IF Len(k) = 1 /\ ~category_Cc(k[1])
        THEN do_self_insert(d1, k)
        ELSE [d1 EXCEPT !.result = ""]

\* if self.raw: result = self.do_self_insert(key); self.raw = False
run_raw(d, k) ==
    LET d1 == do_self_insert(d, k)
    IN  IF Raised(d1) THEN d1 ELSE [d1 EXCEPT !.raw = FALSE]

\* Dispatcher.run
run(d, k) ==
    LET mk == run_key(d, k)
        d1 == run_meta(d)
    IN  run_previous_key(
            IF d1.raw THEN run_raw(d1, mk) ELSE run_dispatch(d1, mk), mk)

\* The key loop of Editable.get_line: the line is read until run returns
\* None; an exception ends the program.
Reading == err = NoErr /\ (op = "run" => result # "None")

\* A key is typed in the main editor.
Run ==
    \E k \in TypedKeys : \E d \in {run(Disp, k)} :
        /\ Reading
        /\ op \in {"init", "run"}
        /\ op' = "run"
        /\ typed' = k
        /\ meta' = d.meta
        /\ raw' = d.raw
        /\ previous_key' = d.previous_key
        /\ in_search_mode' = d.in_search_mode
        /\ do_exit' = d.do_exit
        /\ looked_up' = d.looked_up
        /\ handlers' = d.handlers
        /\ result' = d.result
        /\ s' = d.e.s
        /\ cpos' = d.e.cpos
        /\ cut_buffer' = d.e.cut
        /\ y' = d.e.y
        /\ x' = d.e.x
        /\ err' = d.e.err
        /\ index' = d.rl_history.index
        /\ saved_line' = d.rl_history.saved_line
        /\ UNCHANGED <<is_space_only_skip_char, tab_length, arg, key, ret,
                       entries, allow_duplicates, ignore_blank, hist_line,
                       hist_ret, yielded, push_vars, lookup_vars,
                       matches_vars,
                       tab_vars, loop_vars>>

NextDispatch == Run

SpecDispatch == Init /\ [][NextDispatch]_vars

(***************************************************************************)
(* Lookups in the dispatch table, for every key name that _populate knows  *)
(* and for some that it does not know.  A lookup changes nothing: each is  *)
(* made in the state after the module is loaded.                           *)
(***************************************************************************)
UnknownNames ==
    {<<>>, <<"P", "A", "D">>, <<"P", "A", "D", "S", "T", "A", "R">>,
     <<"\t", ",">>, <<"M", "-">> \o KEY_LEFT, <<"c", "-", "D">> \o <<"x">>}

LookupNames == DOMAIN _keymap \cup DOMAIN _alias_keymap \cup UnknownNames

Contexts == {"clirepl", "statusbar"}

\* dispatch_table._get_precise_keyname(name)
GetPreciseKeyname ==
    \E n \in LookupNames :
        /\ op = "init"
        /\ op' = "_get_precise_keyname"
        /\ typed' = n
        /\ precise' = _get_precise_keyname(n)
        /\ UNCHANGED <<s, cpos, cut_buffer, y, x, err,
                       is_space_only_skip_char, tab_length, arg, key, ret,
                       hist_vars, push_vars, meta, raw, previous_key,
                       in_search_mode, do_exit, looked_up, handlers, result,
                       lookup_context, found, matches_vars,
                       tab_vars, loop_vars>>

\* dispatch_table.get_handler_on_clirepl(name) and
\* dispatch_table.get_handler_on_statusbar(name)
GetHandlerOn(c) ==
    \E n \in LookupNames :
        /\ op = "init"
        /\ op' = "get_handler"
        /\ typed' = n
        /\ lookup_context' = c
        /\ precise' = _get_precise_keyname(n)
        /\ found' = get_handler(c, n)
        /\ UNCHANGED <<s, cpos, cut_buffer, y, x, err,
                       is_space_only_skip_char, tab_length, arg, key, ret,
                       hist_vars, push_vars, meta, raw, previous_key,
                       in_search_mode, do_exit, looked_up, handlers, result,
                       matches_vars,
                       tab_vars, loop_vars>>

GetHandlerOnClirepl == GetHandlerOn("clirepl")

GetHandlerOnStatusbar == GetHandlerOn("statusbar")

NextLookup ==
    \/ GetPreciseKeyname
    \/ GetHandlerOnClirepl
    \/ GetHandlerOnStatusbar

SpecLookup == Init /\ [][NextLookup]_vars

(***************************************************************************)
(* The match cursor (class MatchesIterator).  A candidate is a string, a   *)
(* list of candidates a sequence of strings.                               *)
(***************************************************************************)
MaxMatches == 3
MaxCalls == 4

\* The candidates, in the order of a sorted list of matches.
CandidateWords ==
    <<<<"f", "o", "o", "b", "a", "r">>, <<"f", "o", "o", "b", "a", "z">>,
      <<"f", "o", "o", "q", "u", "x">>, <<"f", "o", "o", "z">>,
      <<"f", "o", "o", "z", "z">>>>

\* The lists of candidates: the first n candidates, for n up to MaxMatches.
MatchLists == {SubSeq(CandidateWords, 1, n) : n \in 0 .. MaxMatches}

\* The words being completed.
AnchorWords == {<<>>, <<"f", "o", "o">>, <<"f", "o">>}

NoValue == <<>>

MI == [current_word |-> matches_iter.current_word,
       matches |-> matches_iter.matches, index |-> matches_iter.index,
       is_wait |-> matches_iter.is_wait, ret |-> NoValue, err |-> NoErr]

\* return self.matches[self.index]
mi_return(m) ==
    IF PyValid(m.matches, m.index)
    THEN [m EXCEPT !.ret = PyAt(m.matches, m.index)]
    ELSE [m EXCEPT !.err = "IndexError"]

\* MatchesIterator.current
current(m) ==
    IF m.index = -1 THEN [m EXCEPT !.err = "ValueError"] ELSE mi_return(m)

\* MatchesIterator.wait
wait(m) == [m EXCEPT !.is_wait = TRUE]

\* next without the wrap at the end of the list.
next_no_wrap(m) ==
    IF m.is_wait THEN mi_return([m EXCEPT !.is_wait = FALSE])
    ELSE mi_return([m EXCEPT !.index = m.index + 1])

\* MatchesIterator.next
next(m) ==
    IF m.is_wait THEN mi_return([m EXCEPT !.is_wait = FALSE])
    ELSE IF Len(m.matches) = 0 THEN [m EXCEPT !.err = "ZeroDivisionError"]
    ELSE mi_return([m EXCEPT !.index = (m.index + 1) % Len(m.matches)])

\* MatchesIterator.previous
previous(m) ==
    LET m1 == [m EXCEPT !.is_wait = FALSE]
        m2 == IF m1.index <= 0 THEN [m1 EXCEPT !.index = Len(m1.matches)]
              ELSE m1
    IN  mi_return([m2 EXCEPT !.index = m2.index - 1])

\* MatchesIterator.update
update(m, current_word, matches) ==
    IF current_word # m.current_word
    THEN [m EXCEPT !.current_word = current_word, !.matches = matches,
                   !.index = -1]
    ELSE m

\* MatchesIterator.force_update
force_update(m, matches) ==
    [m EXCEPT !.matches = matches, !.current_word = <<>>, !.index = -1]

\* MatchesIterator.__init__
MatchesIterator(current_word, matches) ==
    [current_word |-> current_word, matches |-> matches, index |-> -1,
     is_wait |-> FALSE, ret |-> NoValue, err |-> NoErr]

\* The cursor is left as m by the call name; loaded says that the call
\* loaded the matches.
MiCall(m, name, loaded) ==
    /\ err = NoErr
    /\ op \in {"init", "MatchesIterator", "update", "force_update", "current",
               "wait", "next", "previous"}
    /\ loaded \/ Len(mi_calls) < MaxCalls
    /\ op' = name
    /\ err' = m.err
    /\ matches_iter' = [current_word |-> m.current_word,
                        matches |-> m.matches, index |-> m.index,
                        is_wait |-> m.is_wait]
    /\ mi_calls' = IF loaded THEN <<>>
                   ELSE Append(mi_calls, [op |-> name, ret |-> m.ret,
                                          err |-> m.err])
    /\ UNCHANGED <<s, cpos, cut_buffer, y, x, is_space_only_skip_char,
                   tab_length, arg, key, ret, hist_vars, push_vars,
                   dispatch_vars, lookup_vars, tab_vars, loop_vars>>

MiNew ==
    \E w \in AnchorWords : \E ms \in MatchLists :
        MiCall(MatchesIterator(w, ms), "MatchesIterator", TRUE)

MiUpdate ==
    \E w \in AnchorWords : \E ms \in MatchLists :
        MiCall(update(MI, w, ms), "update", w # matches_iter.current_word)

MiForceUpdate ==
    \E ms \in MatchLists : MiCall(force_update(MI, ms), "force_update", TRUE)

MiCurrent == MiCall(current(MI), "current", FALSE)

MiWait == MiCall(wait(MI), "wait", FALSE)

MiNext == MiCall(next(MI), "next", FALSE)

MiPrevious == MiCall(previous(MI), "previous", FALSE)

NextMatches ==
    \/ MiNew
    \/ MiUpdate
    \/ MiForceUpdate
    \/ MiCurrent
    \/ MiWait
    \/ MiNext
    \/ MiPrevious

SpecMatches == Init /\ [][NextMatches]_vars

(***************************************************************************)
(* The popup of the candidates (class ListBox of bpython/cli.py).  The     *)
(* popup is the record of the fields that its layout reads and writes;     *)
(* drawing on the curses window changes none of them.                      *)
(***************************************************************************)
\* The continuation marker '...'.
Marker == <<".", ".", ".">>

\* ListBox.__init__
ListBox ==
    [items |-> <<>>, index |-> -1, v_items |-> <<>>, v_index |-> -1,
     rows |-> 0, cols |-> 0, wl |-> 0, w |-> 0, max_h |-> 0, max_w |-> 0,
     nosep |-> FALSE, height_offset |-> 0]

\* The popup as a record with the error raised by the call.
LB == [b |-> list_box, err |-> NoErr]

\* A sync that leaves the popup at the index it had.
sync_stale(b, m) == b

\* ListBox.sync
sync(b, m) == [b EXCEPT !.index = m.index]

\* ListBox.reset_with, for a screen that leaves max_h rows and max_w columns
\* to the popup.
reset_with(b, repl_matches, m, nosep, max_h, max_w) ==
    sync([b EXCEPT !.nosep = nosep, !.max_h = max_h, !.max_w = max_w,
                   !.items = repl_matches], m)

\* x.rstrip(sep).rsplit(sep)[-1] for sep = '.'
RECURSIVE rstrip_sep(_)
rstrip_sep(item) ==
    IF item # <<>> /\ item[Len(item)] = "." THEN rstrip_sep(PyTo(item, -1))
    ELSE item

RECURSIVE last_part(_)
last_part(item) ==
    IF item = <<>> \/ item[Len(item)] = "." THEN <<>>
    ELSE Append(last_part(PyTo(item, -1)), item[Len(item)])

\* ListBox._trim_items: the candidates are names, never paths of files.
_trim_items(b) ==
    IF b.items # <<>> /\ \E i \in 1 .. Len(b.items[1]) : b.items[1][i] = "."
    THEN [b EXCEPT !.items = [i \in 1 .. Len(b.items) |->
                                  last_part(rstrip_sep(b.items[i]))]]
    ELSE b

\* The for loop of ListBox._prepare_v_items from item i, with the locals
\* rows, cols, wl and v_index of the method kept in the record lo; the
\* else of the loop when the items are used up.
RECURSIVE prepare_loop(_, _, _)
prepare_loop(b, lo, i) ==
    IF i >= Len(b.items)
    THEN [b |-> [b EXCEPT !.v_index = lo.v_index % (Len(b.v_items) + 1)],
          lo |-> [lo EXCEPT !.rows = lo.rows + 1]]
    ELSE LET item == PyTo(b.items[i + 1], b.max_w - 3)
             v_items == Append(b.v_items, item)
             wl == Max(Len(item), lo.wl)
             q == (b.max_w - 2) \div (wl + 1)
             cols == IF q = 0 THEN 1 ELSE q
             r == Len(v_items) \div cols
             rows == IF cols * r < Len(v_items) THEN r + 1 ELSE r
             full == b.max_h - (b.height_offset - 1)
         IN  IF rows + b.height_offset - 1 >= b.max_h
             THEN IF b.index < i - 1
                  THEN [b |-> [b EXCEPT !.v_items =
                                   Append(PyTo(v_items, -2), Marker),
                               !.v_index = lo.v_index],
                        lo |-> [lo EXCEPT !.rows = full, !.cols = cols,
                                          !.wl = wl]]
                  ELSE prepare_loop(
                           [b EXCEPT !.v_items =
                               <<Marker, PyAt(b.items, i - 1), b.items[i + 1]>>],
                           [lo EXCEPT !.rows = full, !.cols = cols, !.wl = wl,
                                      !.v_index = @ - (Len(v_items) - 3)],
                           i + 1)
             ELSE prepare_loop([b EXCEPT !.v_items = v_items],
                               [lo EXCEPT !.rows = rows, !.cols = cols,
                                          !.wl = wl], i + 1)

\* The end of ListBox._prepare_v_items: rows, cols, wl and w of the popup.
prepare_width(b, wl, t) ==
    [b EXCEPT !.wl = wl,
              !.w = IF wl + 3 > b.max_w THEN b.max_w
                    ELSE IF t > b.max_w THEN b.max_w ELSE t]

prepare_finish(b, lo) ==
    prepare_width([b EXCEPT !.rows = lo.rows, !.cols = lo.cols],
                  lo.wl + 1, (lo.cols + 1) * (lo.wl + 1) + 3)

prepare_items(p) == prepare_finish(p.b, p.lo)

\* ListBox._prepare_v_items
_prepare_v_items(b) ==
    prepare_items(
        prepare_loop([(IF ~b.nosep THEN _trim_items(b) ELSE b)
                          EXCEPT !.v_items = <<>>],
                     [rows |-> 0, cols |-> 0, wl |-> 1, v_index |-> b.index],
                     0))

(***************************************************************************)
(* Completion in the main editor: the handlers of CLIRepl that search the  *)
(* history and that cycle through the candidates (tab).  The repl is the   *)
(* record of the fields that they use; scr is what the screen answers to   *)
(* the popup: the rows max_h and columns max_w it leaves to it, the rows   *)
(* topline that the top line of the popup takes, and whether drawing the   *)
(* items raises curses.error.                                              *)
(***************************************************************************)
SIMPLE == "simple"
SUBSTRING == "substring"
FUZZY == "fuzzy"

CLIRepl ==
    [e |-> Ed, rl_history |-> Hist, in_search_mode |-> in_search_mode,
     matches |-> self_matches, matches_iter |-> MI, rl_indices |-> rl_indices,
     list_win_visible |-> list_win_visible, list_box |-> list_box,
     draw_failed |-> FALSE]

\* The cursor is left as m by a call of one of its methods: the value
\* returned is m.ret, and the error raised is raised by the caller.
mi_called(r, m) ==
    [r EXCEPT !.matches_iter = [m EXCEPT !.err = NoErr],
              !.e = IF m.err # NoErr THEN Raise(@, m.err) ELSE @]

\* try: ... except curses.error: self.list_box.refresh()
except_curses_error(r) ==
    IF r.e.err = "curses.error" THEN [r EXCEPT !.e.err = NoErr] ELSE r

\* os.path.commonprefix
commonprefix(seq) ==
    IF seq = <<>> THEN <<>>
    ELSE LET n == CHOOSE n \in {Len(seq[i]) : i \in 1 .. Len(seq)} :
                      \A i \in 1 .. Len(seq) : n <= Len(seq[i])
             common(k) == \A i \in 1 .. Len(seq) :
                              SubSeq(seq[i], 1, k) = SubSeq(seq[1], 1, k)
         IN  SubSeq(seq[1], 1,
                    CHOOSE k \in 0 .. n :
                        common(k) /\ \A j \in (k + 1) .. n : ~common(j))

\* str.split(sep) for a separator that is not empty.
RECURSIVE split(_, _)
split(str, sep) ==
    IF contains(str, sep)
    THEN LET i == CHOOSE i \in 0 .. (Len(str) - Len(sep)) :
                      /\ SubSeq(str, i + 1, i + Len(sep)) = sep
                      /\ \A j \in 0 .. (i - 1) :
                             SubSeq(str, j + 1, j + Len(sep)) # sep
         IN  <<SubSeq(str, 1, i)>> \o split(PyFrom(str, i + Len(sep)), sep)
    ELSE <<str>>

\* ListBox.show, without a docstring to show.
show(r, scr) ==
    IF Failed(r) THEN r
    ELSE IF r.list_box.items # <<>>
    THEN [r EXCEPT !.list_box =
               _prepare_v_items(
                   [@ EXCEPT !.height_offset =
                        (IF r.list_box.nosep THEN 3 ELSE scr.topline) + 1]),
               !.draw_failed = scr.fails,
               !.e = IF scr.fails THEN Raise(@, "curses.error") ELSE @]
    ELSE [r EXCEPT !.list_win_visible = FALSE, !.e = redraw(@)]

\* CLIRepl.show_list_box
show_list_box(r, scr) == show(r, scr)

\* CLIRepl.reset_and_show_list_box
reset_and_show_list_box(r, nosep, scr) ==
    IF Failed(r) THEN r
    ELSE show_list_box(
             [r EXCEPT !.list_box = reset_with(@, r.matches, r.matches_iter,
                                               nosep, scr.max_h, scr.max_w)],
             scr)

\* The body of ListBox.next_page for the popup b and the cursor m moved to
\* the first candidate behind the visible ones.
next_page_turn(r, b, m, scr) ==
    LET r1 == [r EXCEPT !.matches_iter = m,
                        !.list_box = [_prepare_v_items(sync(b, m))
                                          EXCEPT !.v_index = @ - 1]]
    IN  IF scr.fails
        THEN Fail([r1 EXCEPT !.draw_failed = TRUE], "curses.error")
        ELSE mi_called(r1, wait(m))

next_page_from(r, v_index, scr) ==
    next_page_turn(r, [r.list_box EXCEPT !.v_index = v_index],
                   [r.matches_iter EXCEPT
                       !.index = @ + (Len(r.list_box.v_items) - v_index - 1)],
                   scr)

\* ListBox.next_page and the wait of the cursor that ends it.
next_page(r, scr) ==
    IF r.list_box.v_items = <<>> THEN Fail(r, "IndexError")
    ELSE IF PyAt(r.list_box.v_items, -1) # Marker THEN r
    ELSE next_page_from(r, IF r.matches_iter.is_wait
                           THEN r.list_box.v_index + 1
                           ELSE r.list_box.v_index, scr)

\* CLIRepl.show_next_page
show_next_page(r, scr) == next_page(r, scr)

\* except curses.error: self.list_box.refresh(); self.list_win_visible = False
search_shown(r) ==
    IF r.e.err = "curses.error"
    THEN [except_curses_error(r) EXCEPT !.list_win_visible = FALSE]
    ELSE r

\* The end of a history search: the popup of the lines found, and the mode.
search_finish(r, mode) ==
    IF Failed(r) THEN r ELSE [r EXCEPT !.in_search_mode = mode]

search_show(r, typed_line, mode, scr) ==
    IF Failed(r) THEN r
    ELSE IF typed_line # <<>> /\ Len(r.matches) > 0
    THEN search_finish(
             search_shown(reset_and_show_list_box(
                              [r EXCEPT !.e = print_line(@)], TRUE, scr)),
             mode)
    ELSE search_finish([r EXCEPT !.list_win_visible = FALSE,
                                 !.e = redraw(@)], mode)

\* The lines found by a history search, yielded by the generator g.
search_found(r, g, found_lines, mode, scr) ==
    IF g.err # NoErr THEN Fail(r, g.err)
    ELSE search_show(
             mi_called([r EXCEPT !.e = clear_wrapped_lines(@),
                                 !.rl_history.saved_line = r.e.s,
                                 !.matches = found_lines,
                                 !.rl_indices =
                                     [i \in 1 .. Len(g.yielded) |->
                                         g.yielded[i].idx]],
                       update(r.matches_iter, r.e.s, found_lines)),
             r.e.s, mode, scr)

search_lines(r, g, mode, scr) ==
    search_found(r, g, [i \in 1 .. Len(g.yielded) |-> g.yielded[i].val],
                 mode, scr)

\* CLIRepl.search_history (mode "search") and CLIRepl.reverse_search_history
\* (mode "reverse"): the index of the history is set back after the search.
history_search(r, mode, scr) ==
    IF Failed(r) THEN r
    ELSE search_lines(
             r,
             IF mode = "reverse"
             THEN back_iter(enter(r.rl_history, r.e.s), FALSE, TRUE,
                            Len(r.rl_history.entries) + 1)
             ELSE forward_iter(enter(r.rl_history, r.e.s), FALSE, TRUE,
                               Len(r.rl_history.entries) + 1),
             mode, scr)

search_history(r, scr) == history_search(r, "search", scr)
reverse_search_history(r, scr) == history_search(r, "reverse", scr)

\* Repl.complete: self.current_word is read (repl.py:492), which CLIRepl
\* does not implement.
Repl_complete(r) == Fail(r, "NotImplementedError")

\* CLIRepl.complete, outside paste mode.
complete(r, tab_, scr) ==
    IF Failed(r) THEN r
    ELSE IF r.in_search_mode = "search" THEN search_history(r, scr)
    ELSE IF r.in_search_mode = "reverse" THEN reverse_search_history(r, scr)
    ELSE IF r.list_win_visible /\ ~auto_display_list
    THEN mi_called([r EXCEPT !.list_win_visible = FALSE],
                   update(r.matches_iter, <<>>, <<>>))
    ELSE IF auto_display_list \/ tab_ THEN Repl_complete(r)
    ELSE r

\* Dispatcher.do_search_history and Dispatcher.do_reverse_search_history
do_search(r, mode, scr) ==
    IF r.in_search_mode = mode /\ r.e.s # <<>> THEN show_next_page(r, scr)
    ELSE history_search(r, mode, scr)

\* Step 1 of tab: the line is blank up to the cursor, a tab is typed.
tab_indent(r) ==
    LET x_pos == Len(r.e.s) - r.e.cpos
        n == x_pos % tab_length
        num_spaces == IF n = 0 THEN tab_length ELSE n
    IN  [r EXCEPT !.e = print_line(
                      CLIRepl_addstr(@, [i \in 1 .. num_spaces |-> " "]))]

\* Step 3 of tab: the common sequence cseq of the matches.
tab_cseq(r, current_word) ==
    IF autocomplete_mode = SUBSTRING
    THEN IF current_word = <<>> /\ r.matches # <<>>
         THEN [err |-> "ValueError", none |-> TRUE, cseq |-> <<>>]
         ELSE IF \A i \in 1 .. Len(r.matches) :
                     Len(split(r.matches[i], current_word)) = 2
         THEN [err |-> NoErr, none |-> FALSE,
               cseq |-> commonprefix(
                   [i \in 1 .. Len(r.matches) |->
                       current_word \o split(r.matches[i], current_word)[2]])]
         ELSE [err |-> NoErr, none |-> TRUE, cseq |-> <<>>]
    ELSE [err |-> NoErr, none |-> FALSE, cseq |-> commonprefix(r.matches)]

\* Step 3 of tab: the current word is expanded by what the matches share.
tab_expanded(r, cseq, expanded_string) ==
    IF expanded_string # <<>> /\ ~Failed(r)
    THEN mi_called(r, update(r.matches_iter, cseq, r.matches))
    ELSE r

tab_expand(r, current_word, cseq) ==
    tab_expanded([r EXCEPT !.e = print_line(
                      [@ EXCEPT !.s = @ \o PyFrom(cseq, Len(current_word))])],
                 cseq, PyFrom(cseq, Len(current_word)))

\* Step 4 of tab, "reset s if this is the nth result": cur is the cursor
\* after self.matches_iter.current().
swap_reset(r, cur, current_word) ==
    IF r.matches_iter.index = -1 THEN r
    ELSE IF cur.err # NoErr THEN Fail(r, cur.err)
    ELSE IF r.e.cpos # 0
    THEN [r EXCEPT !.e.s = PyTo(@, -Len(cur.ret) - r.e.cpos) \o current_word
                               \o PyFrom(@, -r.e.cpos)]
    ELSE [r EXCEPT !.e.s = PyTo(@, -Len(cur.ret)) \o current_word]

\* current_match = self.matches_iter.previous() or next()
swap_step(r, back_) ==
    IF Failed(r) THEN r
    ELSE mi_called(r, IF back_ THEN previous(r.matches_iter)
                      ELSE next(r.matches_iter))

\* self.list_box.sync(self.matches_iter), and the index of the history in
\* search mode.
swap_sync(r) ==
    IF Failed(r) THEN r
    ELSE IF r.in_search_mode = "None"
    THEN [r EXCEPT !.list_box = sync(@, r.matches_iter)]
    ELSE IF PyValid(r.rl_indices, r.matches_iter.index)
    THEN [r EXCEPT !.list_box = sync(@, r.matches_iter),
                   !.rl_history.index =
                       PyAt(r.rl_indices, r.matches_iter.index)]
    ELSE Fail([r EXCEPT !.list_box = sync(@, r.matches_iter)], "IndexError")

\* "update s with the new match"
swap_update(r, current_word, current_match) ==
    IF autocomplete_mode = SIMPLE
    THEN [r EXCEPT !.e.s = @ \o PyFrom(current_match, Len(current_word))]
    ELSE IF r.in_search_mode # "None" THEN [r EXCEPT !.e.s = current_match]
    ELSE IF r.e.cpos # 0
    THEN [r EXCEPT !.e.s = PyTo(@, -Len(current_word) - r.e.cpos)
                               \o current_match \o PyFrom(@, -r.e.cpos)]
    ELSE [r EXCEPT !.e.s = PyTo(@, -Len(current_word)) \o current_match]

\* The popup is shown without the try statement around it.
swap_show_uncaught(r, scr) ==
    [(IF r.in_search_mode # "None"
      THEN show_list_box([r EXCEPT !.list_box.nosep = TRUE], scr)
      ELSE reset_and_show_list_box(r, FALSE, scr))
     EXCEPT !.e = print_line(@)]

\* The popup is shown, and the line printed.
swap_show(r, scr) ==
    [except_curses_error(
         IF r.in_search_mode # "None"
         THEN show_list_box([r EXCEPT !.list_box.nosep = TRUE], scr)
         ELSE reset_and_show_list_box(r, FALSE, scr))
     EXCEPT !.e = print_line(@)]

swap_match(r, current_word, scr) ==
    IF Failed(r) \/ r.matches_iter.ret = <<>> THEN r
    ELSE swap_show(swap_update(r, current_word, r.matches_iter.ret), scr)

\* Step 4 of tab: the current word is swapped for the next match.
tab_swap(r, back_, current_word, scr) ==
    swap_match(swap_sync(swap_step(swap_reset(r, current(r.matches_iter),
                                              current_word), back_)),
               current_word, scr)

tab_cycle(r, expanded, back_, current_word, scr) ==
    IF Failed(r) THEN r
    ELSE IF ~expanded /\ r.matches # <<>>
    THEN tab_swap(r, back_, current_word, scr)
    ELSE r

\* Steps 3 and 4 of tab, for the common sequence c of the matches.
tab_steps(r, c, back_, current_word, scr) ==
    IF c.err # NoErr THEN Fail(r, c.err)
    ELSE IF ~c.none /\ c.cseq # <<>> /\ autocomplete_mode # FUZZY
    THEN tab_cycle(tab_expand(r, current_word, c.cseq),
                   PyFrom(c.cseq, Len(current_word)) # <<>>,
                   back_, current_word, scr)
    ELSE tab_cycle(r, FALSE, back_, current_word, scr)

\* Steps 3 and 4 of tab, for the current word found by step 2.
tab_complete(r, back_, current_word, scr) ==
    tab_steps(r, tab_cseq(r, current_word), back_, current_word, scr)

\* Step 2 of tab for a cursor without a selection, after self.complete:
\* self.get_current_sbracket() is called (cli.py:1618), which no class of
\* the repl defines.
tab_current_word(r) ==
    IF Failed(r) THEN r
    ELSE IF ~auto_display_list /\ ~r.list_win_visible THEN r
    ELSE Fail(r, "AttributeError")

\* CLIRepl.tab
tab(r, back_, scr) ==
    IF Lstrip(r.e.s) = <<>> /\ ~back_ THEN tab_indent(r)
    ELSE IF r.matches_iter.index = -1
    THEN tab_current_word(complete(r, TRUE, scr))
    ELSE tab_complete(r, back_, r.matches_iter.current_word, scr)

(***************************************************************************)
(* State machine of the completion in the main editor.  The history holds  *)
(* lines entered before; a line comes into the editor by a recall from the *)
(* history, and the keys of the two history searches and the two tab keys  *)
(* are typed on it.                                                        *)
(***************************************************************************)
MaxLine == 9

fo == <<"f", "o">>
foo == <<"f", "o", "o">>
foobar == CandidateWords[1]
foobaz == CandidateWords[2]
fooqux == CandidateWords[3]

\* The histories that the repl starts with, oldest line first.
TabHistories ==
    {<<>>, <<foobar, foobaz, fo>>, <<foobar, foobaz, fooqux, foo>>,
     <<fo, foobar, foobaz, foo>>}

\* What the screen answers to the popup.
Screens == [max_h : {5, 8}, max_w : {9}, topline : {3}, fails : BOOLEAN]

InitTab ==
    /\ InitDispatcher
    /\ autocomplete_mode \in {SIMPLE, SUBSTRING, FUZZY}
    /\ auto_display_list \in BOOLEAN
    /\ s = <<>>
    /\ cpos = 0
    /\ cut_buffer = <<>>
    /\ y = iy
    /\ x = ix
    /\ err = NoErr
    /\ is_space_only_skip_char = FALSE
    /\ tab_length \in TabLengths
    /\ op = "init"
    /\ arg = 0
    /\ key = ""
    /\ ret = None
    /\ entries \in TabHistories
    /\ index = 0
    /\ saved_line = <<>>
    /\ allow_duplicates = TRUE
    /\ ignore_blank = TRUE
    /\ hist_line = <<>>
    /\ hist_ret = <<>>
    /\ yielded = <<>>
    /\ hist_file = [exists |-> FALSE, text |-> <<>>]
    /\ hist_length = 0
    /\ notified = 0
    /\ buffer = <<>>
    /\ source = <<>>

\* The handler `name` leaves the repl as r.
ReplStep(r, name) ==
    /\ err = NoErr
    /\ Len(r.e.s) <= MaxLine
    /\ r.rl_history.index <= MaxIndex + Len(r.rl_history.entries)
    /\ op' = name
    /\ s' = r.e.s
    /\ cpos' = r.e.cpos
    /\ cut_buffer' = r.e.cut
    /\ y' = r.e.y
    /\ x' = r.e.x
    /\ err' = r.e.err
    /\ entries' = r.rl_history.entries
    /\ index' = r.rl_history.index
    /\ saved_line' = r.rl_history.saved_line
    /\ in_search_mode' = r.in_search_mode
    /\ matches_iter' = [current_word |-> r.matches_iter.current_word,
                        matches |-> r.matches_iter.matches,
                        index |-> r.matches_iter.index,
                        is_wait |-> r.matches_iter.is_wait]
    /\ self_matches' = r.matches
    /\ rl_indices' = r.rl_indices
    /\ list_win_visible' = r.list_win_visible
    /\ list_box' = r.list_box
    /\ draw_failed' = r.draw_failed
    /\ UNCHANGED <<is_space_only_skip_char, tab_length, arg, key, ret,
                   allow_duplicates, ignore_blank, hist_line, hist_ret,
                   yielded, push_vars, meta, raw, previous_key, do_exit,
                   typed, looked_up, handlers, result, lookup_vars, mi_calls,
                   autocomplete_mode, auto_display_list, loop_vars>>

\* KEY_UP
KeyPreviousHistory == ReplStep(previous_history(CLIRepl), "previous_history")

\* C-r
KeyReverseSearchHistory ==
    \E scr \in Screens :
        ReplStep(do_search(CLIRepl, "reverse", scr), "do_reverse_search_history")

\* C-s
KeySearchHistory ==
    \E scr \in Screens :
        ReplStep(do_search(CLIRepl, "search", scr), "do_search_history")

\* Tab
KeyTab == \E scr \in Screens : ReplStep(tab(CLIRepl, FALSE, scr), "tab")

\* Shift-Tab
KeyBackTab == \E scr \in Screens : ReplStep(tab(CLIRepl, TRUE, scr), "backtab")

NextTab ==
    \/ KeyPreviousHistory
    \/ KeyReverseSearchHistory
    \/ KeySearchHistory
    \/ KeyTab
    \/ KeyBackTab

SpecTab == InitTab /\ [][NextTab]_vars

(***************************************************************************)
(* The same keys with the cursor inside the line: C-b moves the cursor     *)
(* left in the line recalled, before or between the other keys.            *)
(***************************************************************************)
MaxLeft == 1

InitCycle ==
    /\ InitTab
    /\ entries = <<foobar, foobaz, fooqux, foo>>
    /\ auto_display_list = FALSE

\* C-b, MaxLeft times at most in a line.
KeyBackwardCharacter ==
    /\ cpos < MaxLeft
    /\ ReplStep([CLIRepl EXCEPT !.e = backward_character(@)],
                "do_backward_character")

NextCycle ==
    \/ NextTab
    \/ KeyBackwardCharacter

SpecCycle == InitCycle /\ [][NextCycle]_vars

(***************************************************************************)
(* State machine of the popup: it is loaded with a list of candidates and  *)
(* a cursor on them (reset_with) and laid out (show), the cursor is        *)
(* stepped and the popup synchronised and laid out again, as tab does, and *)
(* the popup is turned to its next page.                                   *)
(***************************************************************************)
MaxItems == 5

\* Lists of candidates of several widths; those of the last list are
\* attributes, which the popup shows without the name of their object.
ItemSeqs ==
    {<<<<"a">>, <<"b", "b">>, <<"c">>, <<"d", "d">>, <<"e">>, <<"f">>>>,
     <<<<"a", "a", "a">>, <<"b">>, <<"c">>, <<"d">>, <<"e", "e", "e">>,
       <<"f">>>>,
     <<<<"m", ".", "a">>, <<"m", ".", "b", "b">>, <<"m", ".", "c">>,
       <<"m", ".", "d">>, <<"m", ".", "e">>, <<"m", ".", "f">>>>}

ItemLists == {SubSeq(sq, 1, n) : sq \in ItemSeqs, n \in 1 .. MaxItems}

BoxScreens == [max_h : {4, 5, 6}, max_w : {5, 8}, topline : {3, 4},
               fails : {FALSE}]

\* The popup is loaded with the candidates and a new cursor on them, and
\* shown.
BoxResetWith ==
    \E items \in ItemLists : \E nosep \in BOOLEAN : \E scr \in BoxScreens :
        op = "init" /\ ReplStep(reset_and_show_list_box(
                     [CLIRepl EXCEPT !.matches = items,
                                     !.matches_iter =
                                         MatchesIterator(<<>>, items)],
                     nosep, scr),
                 "reset_with")

\* The cursor steps, the popup is synchronised with it and shown: the top
\* line takes the rows it took before.
box_step(r, scr) ==
    IF Failed(r) THEN r
    ELSE show([r EXCEPT !.list_box = sync(@, r.matches_iter)], scr)

BoxScreen ==
    [max_h |-> list_box.max_h, max_w |-> list_box.max_w,
     topline |-> list_box.height_offset - 1, fails |-> FALSE]

BoxNext ==
    /\ list_box.items # <<>>
    /\ ReplStep(box_step(swap_step(CLIRepl, FALSE), BoxScreen), "step_next")

BoxPrevious ==
    /\ list_box.items # <<>>
    /\ ReplStep(box_step(swap_step(CLIRepl, TRUE), BoxScreen),
                "step_previous")

BoxNextPage ==
    /\ list_box.items # <<>>
    /\ ReplStep(next_page(CLIRepl, BoxScreen), "next_page")

NextBox ==
    \/ BoxResetWith
    \/ BoxNext
    \/ BoxPrevious
    \/ BoxNextPage

SpecBox == Init /\ [][NextBox]_vars

(***************************************************************************)
(* The resize of the windows.  SIGWINCH is delivered when the size of the  *)
(* terminal changes, and its handler runs between any two steps of the     *)
(* main thread; App.do_resize is therefore taken step by step.  curses     *)
(* takes the size of its screen from LINES and COLUMNS when it is          *)
(* restarted by endwin and doupdate, and app.scr.getmaxyx reports that     *)
(* size.                                                                   *)
(***************************************************************************)
Sizes == {StartSize, [h |-> 40, w |-> 80], [h |-> 24, w |-> 132]}

\* Every variable but op and those of the resize.
repl_vars == <<s, cpos, cut_buffer, y, x, err, is_space_only_skip_char,
               tab_length, arg, key, ret, hist_vars, push_vars,
               dispatch_vars, lookup_vars, matches_vars, tab_vars,
               run_vars, paste_vars, self_yank_index>>

\* App.gethw
gethw == terminal

\* app.scr.getmaxyx()
getmaxyx == environ

\* CLIRepl.size
CLIRepl_size == [h |-> getmaxyx.h - 1, w |-> getmaxyx.w]

\* Statusbar.size
Statusbar_size == [y |-> gethw.h - 1, w |-> gethw.w]

\* The terminal takes another size and the handler of SIGWINCH,
\* App.sigwinch, runs.
Sigwinch ==
    \E size \in Sizes :
        /\ size # terminal
        /\ terminal' = size
        /\ DO_RESIZE' = TRUE
        /\ op' = "sigwinch"
        /\ UNCHANGED <<environ, hw, main_win, status_win, resize_pc,
                       repl_vars>>

\* The process is continued: App.sigcont.  The key that it puts back only
\* wakes the key loop.
Sigcont ==
    /\ DO_RESIZE' = TRUE
    /\ op' = "sigcont"
    /\ UNCHANGED <<terminal, environ, hw, main_win, status_win, resize_pc,
                   repl_vars>>

\* App.idle, called by every iteration of the loop of get_key: the test of
\* the flag.
Idle ==
    /\ resize_pc = "loop"
    /\ resize_pc' = IF DO_RESIZE THEN "do_resize" ELSE "loop"
    /\ op' = "idle"
    /\ UNCHANGED <<DO_RESIZE, terminal, environ, hw, main_win, status_win,
                   repl_vars>>

\* App.do_resize: h, w = App.gethw(), and the return when h is 0.
DoResizeGethw ==
    /\ resize_pc = "do_resize"
    /\ hw' = gethw
    /\ resize_pc' = IF gethw.h = 0 THEN "loop" ELSE "queried"
    /\ op' = "gethw"
    /\ UNCHANGED <<DO_RESIZE, terminal, environ, main_win, status_win,
                   repl_vars>>

\* App.do_resize: endwin, LINES and COLUMNS, doupdate.
DoResizeUpdate ==
    /\ resize_pc = "queried"
    /\ environ' = hw
    /\ resize_pc' = "updated"
    /\ op' = "doupdate"
    /\ UNCHANGED <<DO_RESIZE, terminal, hw, main_win, status_win, repl_vars>>

\* App.do_resize: App.DO_RESIZE = False
DoResizeClear ==
    /\ resize_pc = "updated"
    /\ DO_RESIZE' = FALSE
    /\ resize_pc' = "cleared"
    /\ op' = "clear"
    /\ UNCHANGED <<terminal, environ, hw, main_win, status_win, repl_vars>>

\* App.do_resize: caller.resize(), for the main editor (CLIRepl.resize,
\* which resizes the status bar too).
DoResizeResize ==
    /\ resize_pc = "cleared"
    /\ main_win' = CLIRepl_size
    /\ status_win' = Statusbar_size
    /\ resize_pc' = "loop"
    /\ op' = "resize"
    /\ UNCHANGED <<DO_RESIZE, terminal, environ, hw, repl_vars>>

NextResize ==
    \/ Sigwinch
    \/ Sigcont
    \/ Idle
    \/ DoResizeGethw
    \/ DoResizeUpdate
    \/ DoResizeClear
    \/ DoResizeResize

SpecResize == Init /\ [][NextResize]_vars

(***************************************************************************)
(* The main loop of the repl: CLIRepl.run shows the prompt and reads a     *)
(* line (CLIRepl.get_line, the key loop of Editable.get_line); the line is *)
(* submitted when the dispatcher returns None.  SIGINT during the blocking *)
(* read of a key raises KeyboardInterrupt in get_key, which run catches.   *)
(* The lines are those of the history, without indentation and without a   *)
(* prompt in them: next_indentation is 0 and no prompt is trimmed.         *)
(***************************************************************************)
MaxSubmits == 2

KEY_UP == <<"K", "E", "Y", "_", "U", "P">>

\* The keys typed: a letter, ESC, C-v, C-d, Enter and the up-arrow key.
RunKeys == {<<"a">>, <<"x1b">>, <<"x16">>, <<"x04">>, <<"\n">>, KEY_UP}

\* The readline history that the repl starts with.
RunHistories == {<<>>, << <<"a">> >>, << <<"b", "a">>, <<"a">> >>}

InitRun ==
    /\ InitDispatcher
    /\ InitConfig
    /\ s = <<>>
    /\ cpos = 0
    /\ cut_buffer = <<>>
    /\ y = iy
    /\ x = ix
    /\ err = NoErr
    /\ is_space_only_skip_char = FALSE
    /\ tab_length \in TabLengths
    /\ op = "init"
    /\ arg = 0
    /\ key = ""
    /\ ret = None
    /\ entries \in RunHistories
    /\ index = 0
    /\ saved_line = <<>>
    /\ allow_duplicates = TRUE
    /\ ignore_blank = TRUE
    /\ hist_line = <<>>
    /\ hist_ret = <<>>
    /\ yielded = <<>>
    /\ hist_file = [exists |-> FALSE, text |-> <<>>]
    /\ hist_length = 0
    /\ notified = 0
    /\ buffer = <<>>
    /\ source = <<>>

\* The variables that the dispatcher and its handlers leave as they are.
run_frame == <<cut_buffer, is_space_only_skip_char, tab_length, arg, key,
               ret, allow_duplicates, ignore_blank, hist_line, hist_ret,
               yielded, hist_file, hist_length, notified, lookup_vars,
               matches_vars, tab_vars, resize_vars, paste_vars,
               self_yank_index>>

\* The dispatcher is left as d by the key k.
Dispatched(d, k) ==
    /\ typed' = k
    /\ meta' = d.meta
    /\ raw' = d.raw
    /\ previous_key' = d.previous_key
    /\ in_search_mode' = d.in_search_mode
    /\ do_exit' = d.do_exit
    /\ looked_up' = d.looked_up
    /\ handlers' = d.handlers
    /\ result' = d.result
    /\ cpos' = d.e.cpos
    /\ y' = d.e.y
    /\ x' = d.e.x
    /\ err' = d.e.err
    /\ index' = d.rl_history.index
    /\ saved_line' = d.rl_history.saved_line

InGetLine == err = NoErr /\ run_pc = "get_line"

\* while not self.do_exit: self.prompt(more); inp = self.get_line() up to
\* the first read of a key: self.s = '', self.cpos = 0.
RunPrompt ==
    /\ err = NoErr
    /\ run_pc = "prompt"
    /\ ~do_exit
    /\ op' = "prompt"
    /\ s' = <<>>
    /\ cpos' = 0
    /\ y' = iy
    /\ x' = ix
    /\ run_pc' = "get_line"
    /\ UNCHANGED <<cut_buffer, err, is_space_only_skip_char, tab_length, arg, key,
                   ret, hist_vars, push_vars, dispatch_vars, lookup_vars,
                   matches_vars, tab_vars, resize_vars, paste_vars, history,
                   run_more, self_yank_index>>

\* A key of the line: p_key(key) does not return None, or raises.
KeyTyped(d) ==
    /\ Raised(d) \/ d.result # "None"
    /\ Len(d.e.s) <= MaxChars
    /\ d.rl_history.index <= MaxIndex
    /\ op' = "p_key"
    /\ s' = d.e.s
    /\ UNCHANGED <<entries, buffer, source, run_vars>>

\* C-d on the empty line: get_line returns and run returns exit_value.
Exited(d) ==
    /\ ~Raised(d) /\ d.result = "None" /\ d.do_exit
    /\ op' = "exit"
    /\ s' = d.e.s
    /\ run_pc' = "exit"
    /\ UNCHANGED <<entries, buffer, source, history, run_more>>

\* The line is accepted: self.history.append(inp); more = self.push(inp);
\* if not more: self.s = ''.
Pushed(d, r, more_) ==
    /\ Len(r.rl_history.entries) <= MaxEntries
    /\ Len(r.buffer) <= MaxBuffer
    /\ Len(history) < MaxSubmits
    /\ history' = Append(history, d.e.s)
    /\ run_more' = more_
    /\ entries' = r.rl_history.entries
    /\ buffer' = r.buffer
    /\ source' = r.source
    /\ s' = IF more_ THEN d.e.s ELSE <<>>

Submitted(d) ==
    /\ ~Raised(d) /\ d.result = "None" /\ ~d.do_exit
    /\ op' = "submit"
    /\ run_pc' = "prompt"
    /\ \E more_ \in BOOLEAN :
           Pushed(d, push([Repl EXCEPT !.rl_history = d.rl_history],
                          d.e.s, TRUE, FALSE, hist_file, more_), more_)

\* One iteration of the key loop of Editable.get_line, and what run does
\* with the line when get_line returns.
RunKey ==
    \E k \in RunKeys : \E d \in {run(Disp, k)} :
        /\ InGetLine
        /\ Dispatched(d, k)
        /\ KeyTyped(d) \/ Exited(d) \/ Submitted(d)
        /\ UNCHANGED run_frame

\* except KeyboardInterrupt: the message, a new row, continue.
RunKeyboardInterrupt ==
    /\ InGetLine
    /\ op' = "KeyboardInterrupt"
    /\ y' = y + 1
    /\ x' = 0
    /\ run_pc' = "prompt"
    /\ UNCHANGED <<s, cpos, cut_buffer, err, is_space_only_skip_char,
                   tab_length, arg, key, ret, hist_vars, push_vars,
                   dispatch_vars, lookup_vars, matches_vars, tab_vars,
                   resize_vars, paste_vars, history, run_more,
                   self_yank_index>>

NextRun ==
    \/ RunPrompt
    \/ RunKey
    \/ RunKeyboardInterrupt

SpecRun == InitRun /\ [][NextRun]_vars

(***************************************************************************)
(* Paste mode.  Every iteration of the loop of Editable.get_key ends with  *)
(* App.idle(caller), which calls caller.check().  While paste_mode is on,  *)
(* App.idle polls the keyboard and puts a NUL key back when there is none, *)
(* so that the loop keeps iterating without input.  Time is counted in     *)
(* ticks and one iteration takes no time.                                  *)
(***************************************************************************)
MaxTime == 6

\* config.paste_time, in ticks
paste_time == 2

\* Every variable but op and those of paste mode.
other_than_paste == <<s, cpos, cut_buffer, y, x, err, is_space_only_skip_char,
                      tab_length, arg, key, ret, hist_vars, push_vars,
                      dispatch_vars, lookup_vars, matches_vars, tab_vars,
                      resize_vars, run_vars, self_yank_index>>

\* Editable.check
check(c) ==
    IF paste_mode[c] /\ now - last_key_press[c] > paste_time
    THEN /\ paste_mode' = [paste_mode EXCEPT ![c] = FALSE]
         /\ repaints' = repaints + 1
    ELSE UNCHANGED <<paste_mode, repaints>>

\* Statusbar.check: the timer of the message, which paste mode is not
\* part of.
Statusbar_check == UNCHANGED <<paste_mode, repaints>>

\* caller.check() in App.idle
caller_check ==
    IF caller = "statusbar" THEN Statusbar_check ELSE check(caller)

\* Time passes.
Tick ==
    /\ now < MaxTime
    /\ now' = now + 1
    /\ op' = "tick"
    /\ UNCHANGED <<last_key_press, paste_mode, caller, repaints,
                   other_than_paste>>

\* An iteration of the loop of get_key that reads a key: paste_mode and
\* last_key_press are set, and App.idle runs before the key is returned.
GetKey ==
    /\ paste_mode' = [paste_mode EXCEPT
                         ![caller] = now - last_key_press[caller] <= paste_time]
    /\ last_key_press' = [last_key_press EXCEPT ![caller] = now]
    /\ repaints' = 0
    /\ op' = "get_key"
    /\ UNCHANGED <<now, caller, other_than_paste>>

\* An iteration of the loop without a key (the NUL key that App.idle put
\* back, or no input): App.idle runs caller.check().
Poll ==
    /\ caller_check
    /\ op' = "poll"
    /\ UNCHANGED <<now, last_key_press, caller, other_than_paste>>

\* Statusbar.prompt: a handler of the main editor asks for a line in the
\* status bar, whose key loop runs until the line is entered.
StatusbarPrompt ==
    /\ caller = "clirepl"
    /\ caller' = "statusbar"
    /\ op' = "prompt"
    /\ UNCHANGED <<now, last_key_press, paste_mode, repaints,
                   other_than_paste>>

StatusbarPromptReturns ==
    /\ caller = "statusbar"
    /\ caller' = "clirepl"
    /\ op' = "prompt_returns"
    /\ UNCHANGED <<now, last_key_press, paste_mode, repaints,
                   other_than_paste>>

NextPaste ==
    \/ Tick
    \/ GetKey
    \/ Poll
    \/ StatusbarPrompt
    \/ StatusbarPromptReturns

SpecPaste == Init /\ [][NextPaste]_vars

(***************************************************************************)
(* The cut buffer in the main editor.  A line comes into the editor by a   *)
(* recall from the history; the cursor is moved left in it, the text right *)
(* of the cursor is killed (C-k) and yanked (C-y, and M-y typed as ESC y). *)
(***************************************************************************)
\* M-y is typed MaxPops times at most after a C-y.
MaxPops == 3

C_b == <<"x02">>
C_k == <<"x0b">>
C_y == <<"x19">>

\* The keys typed: the up-arrow key, C-b, C-k, C-y, ESC and y.
YankKeys == {KEY_UP, C_b, C_k, C_y, <<"x1b">>, <<"y">>}

\* The variables that the keys of the cut buffer leave as they are.
yank_frame == <<is_space_only_skip_char, tab_length, arg, key, ret, entries,
                allow_duplicates, ignore_blank, hist_line, hist_ret, yielded,
                push_vars, lookup_vars, matches_vars, tab_vars, resize_vars,
                run_vars, paste_vars>>

\* One iteration of the key loop of Editable.get_line.
YankKey ==
    \E k \in YankKeys : \E d \in {run(Disp, k)} :
        /\ err = NoErr
        /\ Len(d.e.cut) <= MaxCut
        /\ d.rl_history.index <= MaxIndex
        /\ d.yank_index >= -2 - MaxPops
        /\ Dispatched(d, k)
        /\ op' = "p_key"
        /\ s' = d.e.s
        /\ cut_buffer' = d.e.cut
        /\ self_yank_index' = d.yank_index
        /\ UNCHANGED yank_frame

NextYank == YankKey

SpecYank == InitRun /\ [][NextYank]_vars

(***************************************************************************)
(* The prompt of the status bar (Statusbar.prompt): a line is read by the  *)
(* key loop of Editable.get_line with the dispatcher of the status bar,    *)
(* in which ESC is do_cancel.  The prompt returns the line that get_line   *)
(* returns: self.s when the dispatcher returns None.                       *)
(***************************************************************************)
\* The keys typed: a letter, C-b, ESC and Enter.
PromptKeys == {<<"a">>, C_b, <<"x1b">>, <<"\n">>}

\* The dispatcher of the status bar.
StatusbarDisp == [Disp EXCEPT !.owner = "statusbar"]

\* The variables that the prompt leaves as they are.
prompt_frame == <<is_space_only_skip_char, tab_length, arg, key, ret,
                  hist_vars, push_vars, in_search_mode, do_exit, lookup_vars,
                  matches_vars, tab_vars, resize_vars, run_vars, paste_vars,
                  self_yank_index>>

\* self.settext(s or '? ', p=True); self.iy, self.ix = self.scr.getyx():
\* the line is empty, the cursor is behind the text of the prompt.
PromptStart ==
    /\ err = NoErr
    /\ op \in {"init", "prompt_returns"}
    /\ op' = "prompt"
    /\ s' = <<>>
    /\ y' = iy
    /\ x' = ix
    /\ UNCHANGED <<cpos, cut_buffer, err, meta, raw, previous_key, typed,
                   looked_up, handlers, result, prompt_frame>>

\* One iteration of the key loop of Editable.get_line.
PromptKey ==
    \E k \in PromptKeys : \E d \in {run(StatusbarDisp, k)} :
        /\ err = NoErr
        /\ op \in {"prompt", "p_key"}
        /\ op = "p_key" => result # "None"
        /\ Len(d.e.s) <= MaxChars
        /\ Len(d.e.cut) <= MaxCut
        /\ op' = "p_key"
        /\ typed' = k
        /\ meta' = d.meta
        /\ raw' = d.raw
        /\ previous_key' = d.previous_key
        /\ looked_up' = d.looked_up
        /\ handlers' = d.handlers
        /\ result' = d.result
        /\ s' = d.e.s
        /\ cpos' = d.e.cpos
        /\ cut_buffer' = d.e.cut
        /\ y' = d.e.y
        /\ x' = d.e.x
        /\ err' = d.e.err
        /\ UNCHANGED prompt_frame

\* result = self.get_line(); self.settext(self._s); return result
PromptReturns ==
    /\ err = NoErr
    /\ op = "p_key"
    /\ result = "None"
    /\ op' = "prompt_returns"
    /\ s' = <<>>
    /\ UNCHANGED <<cpos, cut_buffer, y, x, err, meta, raw, previous_key,
                   typed, looked_up, handlers, result, prompt_frame>>

NextPrompt ==
    \/ PromptStart
    \/ PromptKey
    \/ PromptReturns

SpecPrompt == Init /\ [][NextPrompt]_vars

(***************************************************************************)
(* One line of the main editor, from the prompt to Enter: the line is      *)
(* recalled from the history, the history is searched, ESC is typed, and   *)
(* Enter accepts the line, which ends get_line.                            *)
(***************************************************************************)
\* The keys that follow ESC when it has set meta.
MetaKeys == {KEY_UP, <<"\n">>, <<"x12">>}

\* get_line has not returned.
LineOpen == err = NoErr /\ op # "do_accept_line"

\* Enter
KeyAcceptLine ==
    /\ LineOpen
    /\ ~meta
    /\ ReplStep(CLIRepl_accept_line(CLIRepl), "do_accept_line")

\* ESC
KeyPrefixMeta ==
    \E d \in {do_prefix_meta(Disp)} :
        /\ LineOpen
        /\ ~meta
        /\ op' = "do_prefix_meta"
        /\ meta' = d.meta
        /\ in_search_mode' = d.in_search_mode
        /\ s' = d.e.s
        /\ cpos' = d.e.cpos
        /\ y' = d.e.y
        /\ x' = d.e.x
        /\ err' = d.e.err
        /\ UNCHANGED <<cut_buffer, is_space_only_skip_char, tab_length, arg,
                       key, ret, hist_vars, push_vars, raw, previous_key,
                       do_exit, typed, looked_up, handlers, result,
                       lookup_vars, matches_vars, tab_vars, loop_vars>>

\* The key after an ESC that has set meta: run looks M-key up.
KeyAfterMeta ==
    \E k \in MetaKeys : \E d \in {run(Disp, k)} :
        /\ LineOpen
        /\ meta
        /\ op' = "run"
        /\ Dispatched(d, k)
        /\ s' = d.e.s
        /\ cut_buffer' = d.e.cut
        /\ UNCHANGED <<is_space_only_skip_char, tab_length, arg, key, ret,
                       entries, allow_duplicates, ignore_blank, hist_line,
                       hist_ret, yielded, push_vars, lookup_vars,
                       matches_vars, tab_vars, loop_vars>>

\* KEY_UP, C-r and C-s
KeyHistory ==
    /\ LineOpen
    /\ ~meta
    /\ KeyPreviousHistory \/ KeyReverseSearchHistory \/ KeySearchHistory

NextAccept ==
    \/ KeyHistory
    \/ KeyAcceptLine
    \/ KeyPrefixMeta
    \/ KeyAfterMeta

\* The two settings of the completion are read by tab only.
InitAccept ==
    /\ InitTab
    /\ autocomplete_mode = SIMPLE
    /\ auto_display_list = FALSE

SpecAccept == InitAccept /\ [][NextAccept]_vars

(***************************************************************************)
(* Properties.  The operation just executed is recorded in op, its integer *)
(* argument in arg, the key typed in key and its return value in ret, so   *)
(* a step with op' = "name" is one call of Editable.name from the unprimed *)
(* state.                                                                  *)
(***************************************************************************)
Splice(sq, c, t) ==
    SubSeq(sq, 1, Len(sq) - c) \o t \o SubSeq(sq, Len(sq) - c + 1, Len(sq))

RemoveAt(sq, i) == SubSeq(sq, 1, i - 1) \o SubSeq(sq, i + 1, Len(sq))

LeftOfCursor(sq, c) == SubSeq(sq, 1, Len(sq) - c)
RightOfCursor(sq, c) == SubSeq(sq, Len(sq) - c + 1, Len(sq))

\* C1: after any sequence of editing operations the cursor offset satisfies
\* 0 <= cpos <= len(s).
C1_CposInRange == 0 <= cpos /\ cpos <= Len(s)

\* A backward_kill_line has left the cursor at the start of a non-empty line,
\* the upper end of the range.
C1_Witness == op = "backward_kill_line" /\ s # <<>> /\ cpos = Len(s)

\* C2: addstr(text) at cursor offset c yields s[:len(s)-c] + text + s[len(s)-c:]
\* and leaves c unchanged; with c = 0 the text is appended.  addstr is called
\* with the typed key by self_insert and with the newest cut-buffer entry by
\* yank.
C2_AddstrSplices ==
    [][/\ op' = "self_insert" =>
            s' = Splice(s, cpos, <<key'>>) /\ cpos' = cpos
       /\ op' = "yank" /\ cut_buffer # <<>> =>
            s' = Splice(s, cpos, cut_buffer[Len(cut_buffer)]) /\ cpos' = cpos
       /\ op' = "self_insert" /\ cpos = 0 => s' = Append(s, key')]_vars

\* A key has been inserted strictly inside the line.
C2_Witness == op = "self_insert" /\ 0 < cpos /\ cpos < Len(s) - 1

\* C3: mvc(i) refuses to move past either edge: at the end of the line
\* (cpos = 0) with i < 0, or at the start of the line (cpos = len(s)) with
\* i > 0, it returns False and leaves cpos and the text unchanged.
C3_MvcRefusesAtEdges ==
    [][op' = "mvc" /\ ((cpos = 0 /\ arg' < 0) \/ (cpos = Len(s) /\ arg' > 0))
         => ret' = False /\ cpos' = cpos /\ s' = s /\ err' = NoErr]_vars

\* C4: for every delta, |delta| > 1 included, for which the move stays inside
\* the line, mvc(delta) changes cpos by exactly delta and leaves the text
\* unchanged.
C4_MvcMovesByDelta ==
    [][op' = "mvc" /\ arg' # 0 /\ 0 <= cpos /\ cpos <= Len(s)
          /\ 0 <= cpos + arg' /\ cpos + arg' <= Len(s)
         => cpos' = cpos + arg' /\ s' = s]_vars

\* C5: for every delta, mvc(delta) followed by mvc(-delta) returns cpos to its
\* original value, provided neither call hits a line boundary (the move by
\* delta stays inside the line).
C5_MvcRoundTrip ==
    [][op' = "mvc_roundtrip" /\ arg' # 0 /\ 0 <= cpos /\ cpos <= Len(s)
          /\ 0 <= cpos + arg' /\ cpos + arg' <= Len(s)
         => cpos' = cpos /\ err' = NoErr]_vars

\* C6: backward_delete_character removes exactly the one codepoint left of the
\* cursor and keeps cpos whenever the tab-dedent case does not apply; it is a
\* no-op when the line is empty or the cursor is at the start of the line;
\* with cpos = 0, inserting one character that does not leave the line
\* whitespace-only and then calling it restores the previous buffer.
C6_TabDedentCase == cpos = 0 /\ arg' = 1 /\ Lstrip(s) = <<>>

C6_BackspaceRemovesOne ==
    [][/\ op' = "backward_delete_character" /\ ~C6_TabDedentCase =>
            IF s = <<>> \/ cpos = Len(s)
            THEN s' = s /\ cpos' = cpos
            ELSE s' = RemoveAt(s, Len(s) - cpos) /\ cpos' = cpos
       /\ op = "self_insert" /\ cpos = 0 /\ Lstrip(s) # <<>>
             /\ op' = "backward_delete_character" =>
            s' = SubSeq(s, 1, Len(s) - 1)]_vars

\* C7: at the end of a whitespace-only line with delete_tabs true,
\* backward_delete_character removes n = len(line) % tab_length characters
\* (tab_length if the remainder is zero), never more than the line holds;
\* with delete_tabs false it removes exactly one.
C7_TabDedentCount ==
    [][op' = "backward_delete_character" /\ cpos = 0 /\ s # <<>>
          /\ Lstrip(s) = <<>>
         => LET n == IF arg' = 1
                     THEN IF Len(s) % tab_length = 0
                          THEN tab_length ELSE Len(s) % tab_length
                     ELSE 1
            IN  /\ n <= Len(s)
                /\ s' = SubSeq(s, 1, Len(s) - n)
                /\ ret' = Int_(n)
                /\ err' = NoErr]_vars

\* A backspace with delete_tabs has removed a whole tab stop of spaces.
C7_Witness ==
    /\ op = "backward_delete_character"
    /\ arg = 1
    /\ ret = Int_(tab_length)
    /\ tab_length > 1
    /\ s = <<>>

\* C8: delete_character is mvc(-1) followed by backward_delete_character(False):
\* with the cursor not at the end of the line it removes exactly the codepoint
\* right of the cursor (never a tab stop of spaces) and cpos ends one smaller;
\* with the cursor at the end of the line or an empty line it changes nothing.
C8_DeleteCharacter ==
    [][op' = "delete_character"
         => /\ err' = NoErr
            /\ IF s = <<>> \/ cpos = 0
               THEN s' = s /\ cpos' = cpos
               ELSE s' = RemoveAt(s, Len(s) - cpos + 1) /\ cpos' = cpos - 1]_vars

\* delete_character has removed one of the spaces of a whitespace-only line,
\* where a backspace with delete_tabs would have removed a tab stop.
C8_Witness ==
    /\ op = "delete_character"
    /\ s = <<" ">>
    /\ cpos = 0
    /\ cut_buffer = <<>>

\* C9: backward_word moves the cursor to the start of the word left of the
\* cursor: it skips the delimiters left of the cursor, then the non-delimiters,
\* stopping at a delimiter or at the start of the line, and never changes the
\* text.
RECURSIVE SkipLeft(_, _, _)
SkipLeft(sq, p, delims) ==
    IF p > 0 /\ ((sq[p] \in word_delimiter) = delims)
    THEN SkipLeft(sq, p - 1, delims)
    ELSE p

WordStartLeft(sq, c) ==
    Len(sq) - SkipLeft(sq, SkipLeft(sq, Len(sq) - c, TRUE), FALSE)

C9_BackwardWord ==
    [][op' = "backward_word"
         => s' = s /\ cpos' = WordStartLeft(s, cpos) /\ err' = NoErr]_vars

\* C10: kill_line with the cursor inside or at the start of a non-empty line
\* leaves the text left of the cursor with cpos = 0 and appends the removed
\* right-hand text to the cut buffer; backward_kill_line leaves the text right
\* of the cursor with cpos = len(s) and appends the removed left-hand text.
\* C10_KillLines states it for backward_kill_line on a non-empty line,
\* C10_KillLinesAnyLine on every line.
C10_KillLineCase ==
    op' = "kill_line" /\ cpos > 0 =>
        /\ s' = LeftOfCursor(s, cpos)
        /\ cpos' = 0
        /\ cut_buffer' = Append(cut_buffer, RightOfCursor(s, cpos))

C10_BackwardKillLineCase ==
    /\ s' = RightOfCursor(s, cpos)
    /\ cpos' = Len(s')
    /\ cut_buffer' = Append(cut_buffer, LeftOfCursor(s, cpos))

C10_KillLines ==
    [][/\ C10_KillLineCase
       /\ op' = "backward_kill_line" /\ s # <<>> => C10_BackwardKillLineCase]_vars

C10_KillLinesAnyLine ==
    [][/\ C10_KillLineCase
       /\ op' = "backward_kill_line" => C10_BackwardKillLineCase]_vars

\* backward_kill_line has cut the left part of a line and kept the right part.
C10_Witness ==
    /\ op = "backward_kill_line"
    /\ s # <<>>
    /\ cut_buffer # <<>>
    /\ cut_buffer[Len(cut_buffer)] # <<>>

\* C11: a kill that has nothing to remove is a no-op on all state: kill_line
\* at the end of the line, backward_kill_line at the start of the line,
\* kill_word at the end and backward_kill_word at the start of the line leave
\* the text, cpos and the cut buffer (no new entry, not even an empty string)
\* unchanged.
C11_NothingToKill ==
    \/ op' \in {"kill_line", "kill_word"} /\ cpos = 0
    \/ op' \in {"backward_kill_line", "backward_kill_word"} /\ cpos = Len(s)

C11_KillNothingIsNoOp ==
    [][C11_NothingToKill
         => s' = s /\ cpos' = cpos /\ cut_buffer' = cut_buffer
            /\ err' = NoErr]_vars

\* C12: yank inserts the newest cut-buffer entry at the cursor; yank_pop(index)
\* leaves the entry cut_buffer[index mod len(cut_buffer)] inserted at the
\* cursor (the text right of the cursor and cpos are kept, the entry ends the
\* text left of the cursor); both leave the text unchanged when the cut buffer
\* is empty, and neither modifies the cut buffer.
EndsWith(sq, t) ==
    Len(t) <= Len(sq) /\ SubSeq(sq, Len(sq) - Len(t) + 1, Len(sq)) = t

C12_YankCase ==
    op' = "yank" =>
        /\ cut_buffer' = cut_buffer
        /\ err' = NoErr
        /\ IF cut_buffer = <<>>
           THEN s' = s /\ cpos' = cpos
           ELSE s' = Splice(s, cpos, cut_buffer[Len(cut_buffer)]) /\ cpos' = cpos

C12_YankPopCase ==
    op' = "yank_pop" =>
        /\ cut_buffer' = cut_buffer
        /\ err' = NoErr
        /\ IF cut_buffer = <<>>
           THEN s' = s /\ cpos' = cpos
           ELSE /\ cpos' = cpos
                /\ RightOfCursor(s', cpos') = RightOfCursor(s, cpos)
                /\ EndsWith(LeftOfCursor(s', cpos'),
                            cut_buffer[(arg' % Len(cut_buffer)) + 1])

C13_KillWordsNoError ==
    [][op' \in {"kill_word", "backward_kill_word"}
         => err' = NoErr /\ Len(s') <= Len(s)]_vars

\* C14: after any sequence of History operations the browse index satisfies
\* 0 <= index <= len(entries), also when entries is empty.
C14_IndexInRange == 0 <= index /\ index <= Len(entries)

\* C15: append(line) adds the line, its trailing newlines stripped, as the
\* last entry unless it is blank and ignore_blank is set, and then entries are
\* unchanged; with allow_duplicates false the earlier identical entries are
\* removed first, so the entries never hold a value twice and the other
\* entries keep their order.
NoDuplicates(es) == \A i, j \in 1 .. Len(es) : es[i] = es[j] => i = j

\* The entries es after the line `stripped` was added under the policy of
\* allow_duplicates and ignore_blank.
Appended(es, stripped) ==
    IF stripped = <<>> /\ ignore_blank THEN es
    ELSE IF allow_duplicates THEN Append(es, stripped)
    ELSE Append(SelectSeq(es, LAMBDA v : v # stripped), stripped)

C15_AppendCase ==
    op' = "append" =>
        /\ err' = NoErr
        /\ index' = index
        /\ entries' = Appended(entries, rstrip_newline(hist_line'))

C16_EnterKeepsSavedLine ==
    [][op' \in {"enter", "previous_history", "next_history"} /\ index > 0
         => saved_line' = saved_line]_vars

\* C17: back() increases index by one and returns entries[-index]; forward()
\* decreases index by one and returns entries[-index] while the new index is
\* >= 1, and from index 1 it sets index to 0 and returns saved_line.
C17_BackCase ==
    op' = "back" /\ arg' = 0 /\ 0 <= index /\ index < Len(entries) =>
        /\ err' = NoErr
        /\ index' = index + 1
        /\ hist_ret' = PyAt(entries, -index')

C17_ForwardCase ==
    op' = "forward" /\ arg' = 0 /\ 1 <= index /\ index <= Len(entries) =>
        /\ err' = NoErr
        /\ index' = index - 1
        /\ hist_ret' = IF index' >= 1 THEN PyAt(entries, -index') ELSE saved_line

C17_BackForward == [][C17_BackCase /\ C17_ForwardCase]_vars

\* C18: after append(x) of a non-blank x from index 0, back() returns x; and
\* back() with index = len(entries), the oldest entry in view, returns the
\* oldest entry again, leaves index at len(entries) and raises no error.
C18_AppendThenBack ==
    op = "append" /\ rstrip_newline(hist_line) # <<>> /\ index = 0
    /\ op' = "back" /\ arg' = 0 =>
        err' = NoErr /\ hist_ret' = rstrip_newline(hist_line)

C18_BackAtOldest ==
    op' = "back" /\ arg' = 0 /\ entries # <<>> /\ index = Len(entries) =>
        err' = NoErr /\ index' = index /\ hist_ret' = entries[1]

C18_BackClamps == [][C18_AppendThenBack /\ C18_BackAtOldest]_vars

\* C19: in one scan of back_iter or forward_iter in search (substring) or
\* start (prefix) mode each distinct value is yielded at most once, every
\* yielded value matches the term saved_line, and only entries older
\* (backward) or newer (forward) than the current index are yielded.
C19_ScanCase ==
    op' \in {"back_iter", "forward_iter"} /\ arg' \in SearchModes =>
        /\ \A i, j \in 1 .. Len(yielded') :
               yielded'[i].val = yielded'[j].val => i = j
        /\ \A i \in 1 .. Len(yielded') :
               /\ IF arg' = 2 THEN contains(yielded'[i].val, saved_line)
                              ELSE startswith(yielded'[i].val, saved_line)
               /\ IF op' = "back_iter" THEN yielded'[i].idx > index
                  ELSE 0 < yielded'[i].idx /\ yielded'[i].idx < index
               /\ PyValid(entries, -yielded'[i].idx)
               /\ yielded'[i].val = PyAt(entries, -yielded'[i].idx)

C19_ScanYieldsAnyHistory == [][C19_ScanCase]_vars

\* C19, with an empty history set apart: there a backward scan yields the
\* term saved_line itself, once, with the index it found, and a forward scan
\* yields nothing.
C19_EmptyCase ==
    /\ op' = "back_iter" =>
           yielded' = <<[val |-> saved_line, idx |-> index]>> /\ index' = index
    /\ op' = "forward_iter" => yielded' = <<>>

C19_ScanYields ==
    [][IF entries # <<>> THEN C19_ScanCase ELSE C19_EmptyCase]_vars

\* A backward scan in search mode over two entries with the same value, both
\* matching a non-empty term, has yielded the value once.
C19_Witness ==
    /\ op = "back_iter"
    /\ arg = 2
    /\ saved_line = <<"a">>
    /\ entries = <<<<"b", "a">>, <<"b", "a">>>>
    /\ Len(yielded) = 1

\* C20: when the write of the history file fails inside Repl.push(s), the
\* entries of rl_history are the entries before the push followed by s
\* (under the policy of append), the error is reported once through
\* interact.notify, and push goes on to evaluate the line.
C20_PushSaveFailsCase ==
    op' = "push" /\ arg' = 1 =>
        /\ entries' = Appended(entries, rstrip_newline(hist_line'))
        /\ notified' = 1
        /\ source' = join_newline(Append(buffer, rstrip_newline(hist_line')))
        /\ err' = NoErr

C20_PushSaveFails == [][C20_PushSaveFailsCase]_vars

\* A failed write after which the entries are not the ones of the history
\* file followed by the line: the file held "a", the session had "ba".
C20_Witness ==
    /\ op = "push"
    /\ arg = 1
    /\ notified = 1
    /\ hist_line = <<"a">>
    /\ entries = <<<<"b", "a">>, <<"a">>>>
    /\ hist_file.exists
    /\ hist_file.text = <<"a", "\n">>

\* The name that follows n in an alias chain.
AliasOf(n) == IF n \in DOMAIN _alias_keymap THEN _alias_keymap[n] ELSE n

\* The j-th name of the alias chain that starts with n.
RECURSIVE AliasChain(_, _)
AliasChain(n, j) == IF j = 0 THEN n ELSE AliasOf(AliasChain(n, j - 1))

\* C21: _get_precise_keyname returns for every key name (no chain of
\* aliases built by _populate goes round a cycle); it returns the name
\* itself when the name is a key of the key map or is unknown, and otherwise
\* the key of the key map at the end of the chain of aliases of the name.
C21_PreciseKeyname ==
    op = "_get_precise_keyname" =>
        /\ precise.err = NoErr
        /\ typed \in DOMAIN _keymap \/ typed \notin DOMAIN _alias_keymap
              => precise.keyname = typed
        /\ typed \notin DOMAIN _keymap /\ typed \in DOMAIN _alias_keymap
              => /\ precise.keyname \in DOMAIN _keymap
                 /\ precise.calls > 1
                 /\ precise.keyname = AliasChain(typed, precise.calls - 1)
                 /\ \A j \in 0 .. (precise.calls - 2) :
                        AliasChain(typed, j) \notin DOMAIN _keymap

\* The alias S-F1 of the function key 13.
C21_Witness ==
    /\ op = "_get_precise_keyname"
    /\ typed = <<"S", "-", "F", "1">>
    /\ precise.keyname = <<"K", "E", "Y", "_", "F", "(", "1", "3", ")">>
    /\ precise.calls = 2

\* The handlers that a decorator binds in a table.
Bound(table) ==
    {Decorators[i].function :
        i \in {j \in 1 .. Len(Decorators) : Decorators[j].table = table}}

\* C22: the lookup of a key for a context returns the handler that the table
\* of the context binds to the key, otherwise the handler that the global
\* table binds to it, otherwise it raises CannotFindHandler; a handler bound
\* only in the table of the other context is never returned: C-d is
\* do_delete_character_or_exit in the main editor and do_delete_character
\* in the status line.
C22_HandlerLookup ==
    op = "get_handler" =>
        LET own == _dispatch_tables[lookup_context]
            global == _dispatch_tables.global
            k == precise.keyname
        IN  /\ k \in DOMAIN own => found = [function |-> own[k], err |-> NoErr]
            /\ k \notin DOMAIN own /\ k \in DOMAIN global
                  => found = [function |-> global[k], err |-> NoErr]
            /\ k \notin DOMAIN own /\ k \notin DOMAIN global
                  => found = [function |-> "", err |-> "CannotFindHandler"]
            /\ found.err = NoErr
                  => found.function \in Bound(lookup_context)
                                        \cup Bound("global")
            /\ typed = <<"C", "-", "d">>
                  => found.function =
                        IF lookup_context = "clirepl"
                        THEN "do_delete_character_or_exit"
                        ELSE "do_delete_character"

\* C-d looked up for the status line.
C22_Witness ==
    /\ op = "get_handler"
    /\ lookup_context = "statusbar"
    /\ typed = <<"C", "-", "d">>
    /\ found.function = "do_delete_character"

ESC == <<"x1b">>

\* u("M-") + the curses name of the key typed
MetaKeyOf(k) ==
    <<"M", "-">> \o (IF Len(k) = 1 THEN keyname(ord_(k[1])) ELSE k)

\* ESC typed with neither flag set and outside search mode sets meta.
C23_EscSetsMeta ==
    op' = "run" /\ typed' = ESC /\ ~meta /\ ~raw /\ in_search_mode = "None"
        => meta' /\ handlers' = <<"do_prefix_meta">>

\* The key typed while meta is set is looked up as M-key, and meta is
\* cleared whether or not a handler was found.
C23_MetaKey ==
    op' = "run" /\ meta /\ ~raw
        => /\ ~meta'
           /\ looked_up'[1] = MetaKeyOf(typed')
           /\ handlers' = <<>> <=>
                  get_handler("clirepl", MetaKeyOf(typed')).err # NoErr

\* The key typed while neither flag is set is looked up as it is.
C23_OrdinaryKey == op' = "run" /\ ~meta /\ ~raw => looked_up'[1] = typed'

\* meta is set by nothing but ESC outside search mode.
C23_OnlyEsc ==
    meta' /\ ~meta =>
        /\ op' = "run"
        /\ typed' = ESC
        /\ in_search_mode = "None"
        /\ handlers' = <<"do_prefix_meta">>

\* C23: the meta prefix of the dispatcher has two states.  ESC in the main
\* editor outside search mode sets meta; the next key passed to run is
\* looked up as "M-" + key and meta is cleared after that one key, whether or
\* not a handler was found, so the key after it is looked up as an ordinary
\* key; nothing else sets meta.
C23_MetaPrefix ==
    [][C23_EscSetsMeta /\ C23_MetaKey /\ C23_OrdinaryKey /\ C23_OnlyEsc]_vars

\* ESC, b has called the handler of M-b, and meta is cleared.
C23_Witness ==
    /\ op = "run"
    /\ typed = <<"b">>
    /\ looked_up = <<<<"M", "-", "b">>>>
    /\ handlers = <<"do_backward_word">>
    /\ previous_key = <<"M", "-", "b">>
    /\ ~meta

\* C24: after C-v the next key passed to run is inserted into the line by
\* self_insert without a lookup in the dispatch table, whatever the key is,
\* and raw is cleared afterwards, so that the key after it is dispatched.
C24_RawInsertCase ==
    op' = "run" /\ raw /\ ~meta =>
        /\ looked_up' = <<>>
        /\ handlers' = <<"do_self_insert">>
        /\ s' = Splice(s, cpos, typed')
        /\ cpos' = cpos
        /\ ~raw'
        /\ err' = NoErr

C24_RawInsert == [][C24_RawInsertCase]_vars

\* C25: a key that no handler is bound to is inserted into the line when it
\* is one character that is not a control character, and leaves the line and
\* the cursor as they are otherwise; in both cases run returns '' and raises
\* no error.
C25_UnboundKeyCase ==
    /\ op' = "run"
    /\ ~raw
    /\ ~meta
    /\ get_handler("clirepl", typed').err = "CannotFindHandler"
    => /\ handlers' \in {<<>>, <<"do_self_insert">>}
       /\ IF Len(typed') = 1 /\ ~category_Cc(typed'[1])
          THEN s' = Splice(s, cpos, typed') /\ cpos' = cpos
          ELSE s' = s /\ cpos' = cpos
       /\ result' = ""
       /\ err' = NoErr

C25_UnboundKey == [][C25_UnboundKeyCase]_vars

Steps == {"next", "previous"}

\* The calls since the load are k calls of next.
OnlyNext(k) ==
    /\ Len(mi_calls) = k
    /\ \A i \in 1 .. k : mi_calls[i].op = "next"

\* n + 1 calls of next after a load of n >= 1 candidates return the
\* candidate that the first of them returned.
C26_NextCycle ==
    Len(matches_iter.matches) >= 1
    /\ OnlyNext(Len(matches_iter.matches) + 1)
        => /\ mi_calls[Len(mi_calls)].err = NoErr
           /\ mi_calls[Len(mi_calls)].ret = mi_calls[1].ret

\* Once a candidate is selected (the index is not -1) the index is an index
\* of the list.
C26_IndexInRange ==
    matches_iter.index # -1 =>
        0 <= matches_iter.index
        /\ matches_iter.index < Len(matches_iter.matches)

\* next at the last candidate goes to the first, previous at the first (or
\* with no selection) goes to the last.
C26_Wraps ==
    LET n == Len(matches_iter.matches)
    IN  /\ op' = "next" /\ n >= 1 /\ ~matches_iter.is_wait
           /\ matches_iter.index = n - 1
              => /\ matches_iter'.index = 0
                 /\ mi_calls'[Len(mi_calls')].ret = matches_iter.matches[1]
        /\ op' = "previous" /\ n >= 1 /\ matches_iter.index \in {-1, 0}
              => /\ matches_iter'.index = n - 1
                 /\ mi_calls'[Len(mi_calls')].ret = matches_iter.matches[n]

\* C26: with n >= 1 candidates, n + 1 calls of next on a fresh cursor return
\* the candidate that one call of next returns; next and previous wrap
\* around at both ends of the list; once the selection has started the
\* index is at least 0 and less than n.
C26_Cycle ==
    [](C26_NextCycle /\ C26_IndexInRange) /\ [][C26_Wraps]_vars

\* Four calls of next over three candidates: the first candidate is selected
\* again.
C26_Witness ==
    /\ Len(matches_iter.matches) = 3
    /\ OnlyNext(4)
    /\ matches_iter.index = 0
    /\ mi_calls[4].ret = matches_iter.matches[1]

\* The last call of next or previous since the load, 0 when there is none.
LastStep ==
    IF \E i \in 1 .. (Len(mi_calls) - 1) : mi_calls[i].op \in Steps
    THEN CHOOSE i \in 1 .. (Len(mi_calls) - 1) :
            /\ mi_calls[i].op \in Steps
            /\ \A j \in (i + 1) .. (Len(mi_calls) - 1) :
                  mi_calls[j].op \notin Steps
    ELSE 0

\* C27: current raises the error of no selection exactly when neither next
\* nor previous was called since the matches were loaded; after a call of
\* next or previous on a list that is not empty, a call of next that
\* consumes a pending wait included, current returns the candidate that the
\* call returned.
C27_Current ==
    op = "current" /\ matches_iter.matches # <<>> =>
        IF LastStep = 0
        THEN mi_calls[Len(mi_calls)].err = "ValueError"
        ELSE /\ mi_calls[Len(mi_calls)].err = NoErr
             /\ mi_calls[Len(mi_calls)].ret = mi_calls[LastStep].ret

\* C28: next and previous on a cursor with no candidates raise no error and
\* leave the cursor with no selection.
C28_EmptyCycleCase ==
    op' \in Steps /\ matches_iter.matches = <<>> =>
        /\ err' = NoErr
        /\ matches_iter'.index = -1

C28_EmptyCycle == [][C28_EmptyCycleCase]_vars

\* What all the candidates share beyond the anchor word: in simple mode
\* what follows the anchor in their longest common prefix, in substring
\* mode the longest common prefix of what follows the one place of the
\* anchor in each candidate.
CommonExtension(mode, anchor, candidates) ==
    IF mode = SIMPLE
    THEN IF \A i \in 1 .. Len(candidates) : startswith(candidates[i], anchor)
         THEN PyFrom(commonprefix(candidates), Len(anchor))
         ELSE <<>>
    ELSE IF anchor # <<>>
            /\ \A i \in 1 .. Len(candidates) :
                   Len(split(candidates[i], anchor)) = 2
    THEN commonprefix([i \in 1 .. Len(candidates) |->
                          split(candidates[i], anchor)[2]])
    ELSE <<>>

\* Tab is pressed at the end of a line that ends with the anchor word of
\* the candidates loaded, with no candidate selected.
TabOnCandidates ==
    /\ op' = "tab"
    /\ cpos = 0
    /\ self_matches # <<>>
    /\ matches_iter.matches = self_matches
    /\ matches_iter.index = -1
    /\ matches_iter.current_word # <<>>
    /\ PyFrom(s, Len(s) - Len(matches_iter.current_word))
           = matches_iter.current_word

C29_Extension ==
    CommonExtension(autocomplete_mode, matches_iter.current_word, self_matches)

C29_Expands ==
    TabOnCandidates /\ autocomplete_mode \in {SIMPLE, SUBSTRING}
                    /\ C29_Extension # <<>>
        => /\ err' = NoErr
           /\ s' = s \o C29_Extension
           /\ matches_iter'.index = -1

C29_Cycles ==
    TabOnCandidates /\ matches_iter'.index # -1
        => autocomplete_mode = FUZZY \/ C29_Extension = <<>>

\* C29: Tab in simple or substring mode on candidates that share an
\* extension beyond the anchor word appends exactly that extension to the
\* line and selects no candidate; Tab starts to cycle through the
\* candidates only when the shared extension is empty or the mode is fuzzy.
C29_TabExpansion == [][C29_Expands /\ C29_Cycles]_vars

\* The rows that the grid of all the items of the popup b needs, in the
\* columns that fit for the widest item shown.
RECURSIVE MaxWidth(_, _)
MaxWidth(items, max_w) ==
    IF items = <<>> THEN 1
    ELSE Max(Len(PyTo(Head(items), max_w - 3)), MaxWidth(Tail(items), max_w))

GridCols(b) == Max(1, (b.max_w - 2) \div (MaxWidth(b.items, b.max_w) + 1))
GridRows(b) == (Len(b.items) + GridCols(b) - 1) \div GridCols(b)

\* The list of the popup does not fit in the rows that the popup has.
DoesNotFit(b) == GridRows(b) + b.height_offset - 1 >= b.max_h

\* The item of the popup for the candidate that the cursor selects.
SelectedItem == list_box.items[matches_iter.index + 1]

C30_Case ==
    /\ op \in {"step_next", "step_previous"}
    /\ err = NoErr
    /\ DoesNotFit(list_box)

\* C30: after the layout of the popup that follows a step of the cursor on
\* a list that does not fit in the rows of the popup, the visible items
\* hold the continuation marker, and v_index is the place, among the
\* visible items, of the candidate selected (as the popup shows it, cut to
\* the width of the popup).
C30_SelectedVisible ==
    C30_Case =>
        /\ \E i \in 1 .. Len(list_box.v_items) : list_box.v_items[i] = Marker
        /\ list_box.v_index \in 0 .. (Len(list_box.v_items) - 1)
        /\ list_box.v_items[list_box.v_index + 1]
               \in {SelectedItem, PyTo(SelectedItem, list_box.max_w - 3)}

C30_Witness ==
    /\ C30_Case
    /\ Len(list_box.items) = MaxItems
    /\ matches_iter.index = MaxItems - 1
    /\ list_box.v_items[1] = Marker


\* The longest of the items, and the visible items that are candidates.
RECURSIVE Longest(_)
Longest(items) ==
    IF items = <<>> THEN 0
    ELSE Max(Len(Head(items)), Longest(Tail(items)))

VisibleCandidates(b) == SelectSeq(b.v_items, LAMBDA item : item # Marker)

\* The popup has just been laid out for a list of candidates.
C31_Case ==
    /\ op \in {"reset_with", "step_next", "step_previous", "next_page"}
    /\ err = NoErr
    /\ list_box.items # <<>>

\* C31: after the layout of the popup, the width of a column is the length
\* of the longest visible item plus one, cols is max(1, (max_w - 2) div w),
\* rows is the number of visible items divided by cols and rounded up, and
\* rows plus the rows of the header (height_offset - 1, the rows that the
\* top line took) do not exceed max_h.
C31_GridSizing ==
    C31_Case =>
        /\ list_box.wl = Longest(VisibleCandidates(list_box)) + 1
        /\ list_box.cols = Max(1, (list_box.max_w - 2) \div list_box.wl)
        /\ list_box.rows = (Len(list_box.v_items) + list_box.cols - 1)
                               \div list_box.cols
        /\ list_box.rows + (list_box.height_offset - 1) <= list_box.max_h


\* The windows have the size of the terminal.
LayoutMatches ==
    /\ main_win = [h |-> terminal.h - 1, w |-> terminal.w]
    /\ status_win = [y |-> terminal.h - 1, w |-> terminal.w]

\* The handler of the signal sets the flag and nothing else.
C32_HandlerSetsFlag ==
    op' = "sigwinch" =>
        DO_RESIZE' /\ UNCHANGED <<environ, hw, main_win, status_win, resize_pc>>

\* The windows are resized by App.do_resize, which App.idle started.
C32_AppliedByIdle ==
    <<main_win, status_win>>' # <<main_win, status_win>> =>
        resize_pc = "cleared" /\ op' = "resize"

\* No signal is lost: when the key loop is outside App.do_resize and the
\* flag is false, the windows have the size of the terminal.
C32_NotLost == (resize_pc = "loop" /\ ~DO_RESIZE) => LayoutMatches

\* C32: the handler of SIGWINCH only sets DO_RESIZE, the resize is applied
\* by App.idle in the key loop, and no signal is lost: whenever the flag is
\* false and no resize is in progress, the layout is that of the size the
\* terminal has, also when the signal arrived while do_resize was running.
C32_Resize ==
    /\ [][C32_HandlerSetsFlag /\ C32_AppliedByIdle]_vars
    /\ [](C32_NotLost)


\* The interrupt submits nothing.
C33_NothingSubmitted == UNCHANGED <<history, entries, buffer>>

\* KeyboardInterrupt unwinds to the main loop.
C33_Unwinds ==
    op' = "KeyboardInterrupt" =>
        /\ run_pc' = "prompt"
        /\ C33_NothingSubmitted
        /\ s' = s

\* The prompt that follows the interrupt.
C33_NextPrompt ==
    (op = "KeyboardInterrupt" /\ op' = "prompt") =>
        /\ C33_NothingSubmitted
        /\ s' = s
        /\ ~meta' /\ ~raw'

\* C33: a KeyboardInterrupt during the read of a key unwinds to the main
\* loop of run and submits nothing: self.history, the entries of the
\* readline history and the buffer of the statement are unchanged, the text
\* of the interrupted line is kept and is the line at the next prompt, and
\* the flags meta and raw of the dispatcher are not set when the next line
\* is read.
C33_KeyboardInterrupt == [][C33_Unwinds /\ C33_NextPrompt]_vars


\* More than paste_time has passed since the last key of the editor c.
GapExceeded(c) == now - last_key_press[c] > paste_time

\* Paste mode is entered exactly when the key comes within paste_time of
\* the key before it.
C34_Entered ==
    op' = "get_key" => (paste_mode'[caller] <=> ~GapExceeded(caller))

\* The check of an iteration turns paste mode off as soon as the gap is
\* exceeded, and repaints the line.
C34_TurnedOff ==
    (op' = "poll" /\ paste_mode[caller] /\ GapExceeded(caller)) =>
        ~paste_mode'[caller] /\ repaints' = repaints + 1

\* C34: paste mode is entered exactly when a key arrives within paste_time
\* of the previous key; once it is on, the check made by every iteration
\* of the key loop turns it off as soon as more than paste_time has passed
\* since the last key, and repaints the line exactly once; it does not
\* stay on while the loop polls without input.
C34_PasteMode ==
    /\ [][C34_Entered /\ C34_TurnedOff]_vars
    /\ [](repaints <= 1)

\* The screens on which the popup is drawn.
Drawing == {scr \in Screens : ~scr.fails}

\* The line and the cursor offset are those that the handler leaves as r.
SameLine(r) == s' = r.e.s /\ cpos' = r.e.cpos

\* C35, the two history searches: the draw of the popup of the lines found
\* raises curses.error.
C35_SearchCase(mode, name) ==
    (op' = name /\ ~(in_search_mode = mode /\ s # <<>>) /\ draw_failed') =>
        /\ err' # "curses.error"
        /\ ~list_win_visible'
        /\ \A scr \in Drawing : SameLine(history_search(CLIRepl, mode, scr))

\* C35, tab and the call of complete in it: the draw of the popup raises
\* curses.error.
C35_TabCase(back_, name) ==
    (op' = name /\ draw_failed') =>
        /\ err' # "curses.error"
        /\ ~list_win_visible'
        /\ \A scr \in Drawing : SameLine(tab(CLIRepl, back_, scr))

C_y_or_M_y == {<<"C", "-", "y">>, <<"M", "-", "y">>}

\* The key of this step is C-y, and M-y, for the dispatcher.
YankTyped == op' = "p_key" /\ handlers' = <<"do_yank">>
YankPopTyped == op' = "p_key" /\ looked_up' = << <<"M", "-", "y">> >>

\* The entry of the cut buffer that the k-th M-y after a C-y inserts, for
\* self_yank_index = -1 - k, and the one inserted by the key before it.
PoppedEntry == cut_buffer[(self_yank_index % Len(cut_buffer)) + 1]
YankedEntry == cut_buffer[((self_yank_index + 1) % Len(cut_buffer)) + 1]

\* C36, C-y: the newest entry is inserted at the cursor, and the count of
\* M-y starts again.
C36_YankCase ==
    (YankTyped /\ cut_buffer # <<>>) =>
        /\ err' = NoErr
        /\ s' = Splice(s, cpos, cut_buffer[Len(cut_buffer)])
        /\ cpos' = cpos
        /\ self_yank_index' = -2

\* C36, M-y after C-y or M-y: the text yanked by the key before is removed
\* and the next older entry is inserted in its place.
C36_YankPopCase ==
    (YankPopTyped /\ smart_match(previous_key, C_y_or_M_y)
                  /\ cut_buffer # <<>>) =>
        /\ err' = NoErr
        /\ EndsWith(LeftOfCursor(s, cpos), YankedEntry)
        /\ s' = Splice(SubSeq(s, 1, Len(s) - cpos - Len(YankedEntry))
                           \o RightOfCursor(s, cpos), cpos, PoppedEntry)
        /\ cpos' = cpos
        /\ self_yank_index' = self_yank_index - 1

\* C36, M-y after any other key: nothing changes.
C36_YankPopIdle ==
    (YankPopTyped /\ ~smart_match(previous_key, C_y_or_M_y)) =>
        /\ err' = NoErr
        /\ UNCHANGED <<s, cpos, cut_buffer, self_yank_index>>

\* C36: C-y and k presses of M-y after it leave the line as it was before
\* C-y with the entry (-1 - k) mod n of the cut buffer inserted at the
\* cursor: each M-y removes the text yanked before and inserts the next
\* older entry; M-y after a key that is neither C-y nor M-y changes nothing,
\* and a later C-y starts from the newest entry again.
C36_YankCycle ==
    [][C36_YankCase /\ C36_YankPopCase /\ C36_YankPopIdle]_vars

\* The candidate that the cursor m of the matches selects.
Selected(m) == m.matches[m.index + 1]

DropRight(sq, t) == SubSeq(sq, 1, Len(sq) - Len(t))

\* Step 4 of tab has run in this step: the cursor has left its wait, or has
\* stepped from a candidate to a candidate.
CyclingStep ==
    /\ op' \in {"tab", "backtab"}
    /\ err' = NoErr
    /\ matches_iter.index >= 0
    /\ matches_iter'.index >= 0
    /\ ~matches_iter'.is_wait
    /\ self_matches # <<>>

\* What the cursor has put left of the cursor of the line: the candidate
\* selected, or the anchor word as long as the cursor waits.
Inserted ==
    IF matches_iter.is_wait THEN matches_iter.current_word
    ELSE Selected(matches_iter)

\* C37, the candidate: it takes the place of what the step before inserted.
C37_Replaces ==
    (CyclingStep /\ EndsWith(LeftOfCursor(s, cpos), Inserted)) =>
        /\ s' = DropRight(LeftOfCursor(s, cpos), Inserted)
                    \o Selected(matches_iter') \o RightOfCursor(s, cpos)
        /\ cpos' = cpos

\* C37, the text right of the cursor.
C37_KeepsRight ==
    CyclingStep => RightOfCursor(s', cpos') = RightOfCursor(s, cpos)

\* C37: during Tab cycling each Tab or Shift-Tab replaces the candidate
\* inserted before and does not accumulate: the line is the line before
\* cycling with the anchor word replaced by the candidate selected, and the
\* text right of the cursor is unchanged.
C37_TabCycling == [][C37_Replaces /\ C37_KeepsRight]_vars

\* CLIRepl.search_history (mode "search") or reverse_search_history (mode
\* "reverse") is called by the key of this step and returns.
Searched(mode, name) ==
    op' = name /\ ~(in_search_mode = mode /\ s # <<>>) /\ err' = NoErr

HistorySearched ==
    \/ Searched("search", "do_search_history")
    \/ Searched("reverse", "do_reverse_search_history")

\* The line at position i of the history, counted from the newest, is
\* line_.
EntryAt(i, line_) ==
    i \in 1 .. Len(entries) /\ PyAt(entries, -i) = line_

\* C38, the call: the index of the history is kept, and each line found is
\* the entry at the index collected with it.
C38_SearchCase ==
    HistorySearched =>
        /\ index' = index
        /\ Len(rl_indices') = Len(self_matches')
        /\ \A j \in 1 .. Len(rl_indices') :
               EntryAt(rl_indices'[j], self_matches'[j])

\* A Tab or Shift-Tab of this step selects a line found by the search.
MatchSelected ==
    /\ op' \in {"tab", "backtab"}
    /\ err' = NoErr
    /\ in_search_mode # "None"
    /\ self_matches # <<>>
    /\ matches_iter'.index >= 0
    /\ ~matches_iter'.is_wait
    /\ matches_iter.is_wait \/ matches_iter'.index # matches_iter.index

\* C38, the selection: the index of the history is the position of the
\* line selected.
C38_SelectCase ==
    MatchSelected => EntryAt(index', Selected(matches_iter'))

EscTyped == op' = "p_key" /\ typed' = <<"x1b">> /\ ~raw

\* C39: ESC in the prompt of the status bar cancels the prompt: whatever
\* the line and the cursor offset, get_line returns (the dispatcher returns
\* None) with the empty line, which is what the prompt returns, and the
\* text removed from the line is pushed to the cut buffer.
C39_EscCancels ==
    [][EscTyped =>
           /\ err' = NoErr
           /\ result' = "None"
           /\ s' = <<>>
           /\ s # <<>> => cut_buffer' = Append(cut_buffer, s)]_vars

\* C40, Enter: the history is at its newest end with no line saved, and
\* the search mode is left.
C40_AcceptCase ==
    op' = "do_accept_line" =>
        /\ err' = NoErr
        /\ index' = 0
        /\ saved_line' = <<>>
        /\ in_search_mode' = "None"

\* C40, ESC in search mode: the search mode is left and meta is not set, so
\* that run looks the next key up as it is typed.
C40_EscCase ==
    (op' = "do_prefix_meta" /\ in_search_mode # "None") =>
        /\ in_search_mode' = "None"
        /\ ~meta'
        /\ \A k \in MetaKeys : run_key([meta |-> meta'], k) = k

====
